---- MODULE Spec2Model ----
(***************************************************************************)
(* Mafia-bot: the game session state machine of game_manager.py            *)
(* (GameManager), with the role tables of roles.py (RoleManager) and the   *)
(* mode table of config.py (GAME_SETTINGS).                                *)
(*                                                                         *)
(* One GameManager instance owns the registry `games`, the night-action    *)
(* buffers `pending_actions` and, per started game, one coroutine that     *)
(* runs the phases (start_round -> _night_phase -> _process_night_actions  *)
(* -> _day_phase -> _process_day_votes -> ...).  The coroutine suspends at *)
(* its awaits; handlers (join, start, cancel, handle_action, handle_vote)  *)
(* run between two suspensions.  `pc` is the position of each coroutine.   *)
(***************************************************************************)
EXTENDS Naturals, Integers, Sequences, FiniteSets, TLC

VARIABLES
    games,            \* GameManager.games: game id -> game dict
    pending_actions,  \* GameManager.pending_actions: game id -> {kind: target}
    pc,               \* game id -> position of the game's phase coroutine
    night_outcome,    \* game id -> locals of _process_night_actions at its awaits
    day_outcome,      \* game id -> locals of _process_day_votes at its awaits
    ledger,           \* user id -> what _end_game handed to PlayerManager: wins and
                      \* losses recorded, XP and coins passed, add_xp and add_coins calls
    ret               \* the last lobby request (create/join/start/cancel) and its return value

vars == <<games, pending_actions, pc, night_outcome, day_outcome, ledger, ret>>

-----------------------------------------------------------------------------
(* Bounds of the model *)

\* users 1..MaxUser send requests; a game's roster is a prefix of them
MaxUser == 11
\* users 1..MaxTarget are named as targets of night actions and day votes
MaxTarget == 3
\* users 1..MaxVoter cast day votes
MaxVoter == 1
\* the phase timers stop firing once round has reached MaxRound
MaxRound == 2
\* the shuffle of assign_roles draws from the random streams 0..MaxSeed
MaxSeed == 1

Users == 1..MaxUser
GameIds == {"G1"}
Modes == {"5v5", "1v1"}
NoUser == 0
NoRole == "none"

EmptyDict == [k \in {} |-> 0]
Put(d, k, v) == [x \in (DOMAIN d) \cup {k} |-> IF x = k THEN v ELSE d[x]]
Pop(d, k) == [x \in (DOMAIN d) \ {k} |-> d[x]]
Get(d, k, default) == IF k \in DOMAIN d THEN d[k] ELSE default

Range(s) == {s[i] : i \in DOMAIN s}

\* a user's display name; a target is named by it in action and vote texts
username_of(u) == u
UnknownName == 99
\* the 'skip' entry of day_votes, and the Skip Vote button as a vote text
Skip == 98
TargetNames == {username_of(u) : u \in 1..MaxTarget} \cup {UnknownName}

-----------------------------------------------------------------------------
(* config.py: GAME_SETTINGS *)

GAME_SETTINGS ==
    [m \in Modes |->
        IF m = "5v5"
        THEN [min_players |-> 10, max_players |-> 10,
              roles |-> [mafia |-> 3, detective |-> 1, doctor |-> 1, villager |-> 5],
              base_xp_reward |-> 150]
        ELSE [min_players |-> 2, max_players |-> 2,
              roles |-> [mafia |-> 1, detective |-> 1],
              base_xp_reward |-> 75]]

\* GameManager.get_required_players
get_required_players(mode) == GAME_SETTINGS[mode].max_players

-----------------------------------------------------------------------------
(* roles.py: RoleManager *)

Roles == {"mafia", "detective", "doctor", "villager", "vigilante", "godfather", "jester"}

\* RoleManager.get_role_team
get_role_team(role) ==
    CASE role \in {"mafia", "godfather"} -> "mafia"
      [] role \in {"detective", "doctor", "villager", "vigilante"} -> "villagers"
      [] role = "jester" -> "neutral"
      [] OTHER -> "unknown"

\* RoleManager.is_evil_role
is_evil_role(role) == get_role_team(role) \in {"mafia", "neutral"}

Repeat(x, n) == [i \in 1..n |-> x]

\* a role_counts table one mafia short in 5v5 and without the detective in 1v1
role_counts_short(mode) ==
    IF mode = "5v5"
    THEN Repeat("mafia", 2) \o Repeat("detective", 1) \o Repeat("doctor", 1)
         \o Repeat("villager", 5)
    ELSE Repeat("mafia", 1)

\* the role_counts table of assign_roles, expanded in dict order
role_counts(mode) ==
    IF mode = "5v5"
    THEN Repeat("mafia", 3) \o Repeat("detective", 1) \o Repeat("doctor", 1)
         \o Repeat("villager", 5)
    ELSE Repeat("mafia", 1) \o Repeat("detective", 1)

\* while len(roles) < player_count: roles.append('villager')
PadRoles(roles, player_count) ==
    IF Len(roles) < player_count
    THEN roles \o Repeat("villager", player_count - Len(roles))
    ELSE roles

\* x[i], x[j] = x[j], x[i]   (positions 1-based here)
Swap(x, i, j) == [x EXCEPT ![i] = x[j], ![j] = x[i]]

\* random.shuffle: for i in reversed(range(1, len(x))): j = randbelow(i + 1); swap.
\* draw[i] is the value randbelow returns at 0-based position i.
RECURSIVE ShuffleFrom(_, _, _)
ShuffleFrom(x, i, draw) ==
    IF i < 1 THEN x
    ELSE ShuffleFrom(Swap(x, i + 1, (draw[i] % (i + 1)) + 1), i - 1, draw)

Shuffle(x, draw) == ShuffleFrom(x, Len(x) - 1, draw)

\* the random stream of seed s, as far as a shuffle of n items reads it
RandomStream(s, n) == [i \in 1..(n - 1) |-> (s * i) % (i + 1)]

\* every outcome of random.shuffle(x): all draws at every position
RECURSIVE ShuffleAll(_, _)
ShuffleAll(S, i) ==
    IF i < 1 THEN S
    ELSE ShuffleAll({Swap(x, i + 1, j + 1) : x \in S, j \in 0..i}, i - 1)

Take(s, n) == IF Len(s) <= n THEN s ELSE SubSeq(s, 1, n)

\* RoleManager.assign_roles, the shuffle done by `shuffle`
assign_roles(player_count, game_mode, shuffled) ==
    Take(shuffled, player_count)

RoleList(player_count, game_mode) == PadRoles(role_counts(game_mode), player_count)

\* the outcomes of assign_roles(player_count, game_mode) over the seeds 0..MaxSeed
SeededRoles(player_count, game_mode) ==
    {assign_roles(player_count, game_mode,
                  Shuffle(RoleList(player_count, game_mode),
                          RandomStream(s, Len(RoleList(player_count, game_mode)))))
        : s \in 0..MaxSeed}

\* the outcomes of assign_roles(player_count, game_mode) over every draw
AllRoles(player_count, game_mode) ==
    {assign_roles(player_count, game_mode, r)
        : r \in ShuffleAll({RoleList(player_count, game_mode)},
                           Len(RoleList(player_count, game_mode)) - 1)}

-----------------------------------------------------------------------------
(* game_manager.py: the lobby *)

NewPlayer(user_id) ==
    [user_id |-> user_id, username |-> username_of(user_id), role |-> NoRole,
     alive |-> TRUE, protected |-> FALSE, last_protected |-> NoUser]

NewGame(mode, creator_id) ==
    [mode |-> mode, creator_id |-> creator_id, players |-> <<NewPlayer(creator_id)>>,
     status |-> "waiting", phase |-> "day", round |-> 0, winner |-> "none",
     day_votes |-> EmptyDict]

NoRet == [op |-> "none", game |-> "none", user_id |-> NoUser, ok |-> TRUE, msg |-> "none"]
NoOutcome == [eliminated |-> NoUser, protected |-> FALSE, investigation |-> "none"]
NoTally == [eliminated |-> NoUser, tie |-> FALSE]
NoLedger == [wins |-> 0, losses |-> 0, xp |-> 0, coins |-> 0, xp_awards |-> 0,
             coin_awards |-> 0]

Roster(game) == {game.players[i].user_id : i \in DOMAIN game.players}

\* GameManager.create_game
create_game(g, mode, creator_id) ==
    /\ g \notin DOMAIN games
    /\ games' = Put(games, g, NewGame(mode, creator_id))
    /\ pending_actions' = Put(pending_actions, g, EmptyDict)
    /\ pc' = Put(pc, g, "lobby")
    /\ night_outcome' = Put(night_outcome, g, NoOutcome)
    /\ day_outcome' = Put(day_outcome, g, NoTally)
    /\ ret' = [op |-> "create", game |-> g, user_id |-> creator_id, ok |-> TRUE, msg |-> "created"]
    /\ UNCHANGED ledger

\* a join_game that does not ask whether the user is in the roster already
join_result_again(g, user_id) ==
    IF g \notin DOMAIN games THEN [ok |-> FALSE, msg |-> "Game not found!"]
    ELSE IF games[g].status # "waiting" THEN [ok |-> FALSE, msg |-> "Game already started!"]
    ELSE IF Len(games[g].players) >= GAME_SETTINGS[games[g].mode].max_players
         THEN [ok |-> FALSE, msg |-> "Game lobby is full!"]
    ELSE [ok |-> TRUE, msg |-> "joined!"]

\* the return value of join_game
join_result(g, user_id) ==
    IF g \notin DOMAIN games THEN [ok |-> FALSE, msg |-> "Game not found!"]
    ELSE IF games[g].status # "waiting" THEN [ok |-> FALSE, msg |-> "Game already started!"]
    ELSE IF user_id \in Roster(games[g]) THEN [ok |-> FALSE, msg |-> "You're already in this game!"]
    ELSE IF Len(games[g].players) >= GAME_SETTINGS[games[g].mode].max_players
         THEN [ok |-> FALSE, msg |-> "Game lobby is full!"]
    ELSE [ok |-> TRUE, msg |-> "joined!"]

\* GameManager.join_game
join_game(g, user_id) ==
    /\ ret' = [op |-> "join", game |-> g, user_id |-> user_id] @@ join_result(g, user_id)
    /\ IF join_result(g, user_id).ok
       THEN games' = [games EXCEPT ![g].players = Append(@, NewPlayer(user_id))]
       ELSE UNCHANGED games
    /\ UNCHANGED <<pending_actions, pc, night_outcome, day_outcome, ledger>>

\* a start_game that does not ask whether the session is still waiting
start_result_any_status(g, user_id) ==
    IF g \notin DOMAIN games THEN [ok |-> FALSE, msg |-> "Game not found!"]
    ELSE IF games[g].creator_id # user_id THEN [ok |-> FALSE, msg |-> "Only creator can start!"]
    ELSE IF Len(games[g].players) < get_required_players(games[g].mode)
         THEN [ok |-> FALSE, msg |-> "Need players!"]
    ELSE [ok |-> TRUE, msg |-> "Game started!"]

\* a start_game that does not ask who the requester is
start_result_any_user(g, user_id) ==
    IF g \notin DOMAIN games THEN [ok |-> FALSE, msg |-> "Game not found!"]
    ELSE IF games[g].status # "waiting" THEN [ok |-> FALSE, msg |-> "Game already started!"]
    ELSE IF Len(games[g].players) < get_required_players(games[g].mode)
         THEN [ok |-> FALSE, msg |-> "Need players!"]
    ELSE [ok |-> TRUE, msg |-> "Game started!"]

\* the return value of start_game
start_result(g, user_id) ==
    IF g \notin DOMAIN games THEN [ok |-> FALSE, msg |-> "Game not found!"]
    ELSE IF games[g].creator_id # user_id THEN [ok |-> FALSE, msg |-> "Only creator can start!"]
    ELSE IF games[g].status # "waiting" THEN [ok |-> FALSE, msg |-> "Game already started!"]
    ELSE IF Len(games[g].players) < get_required_players(games[g].mode)
         THEN [ok |-> FALSE, msg |-> "Need players!"]
    ELSE [ok |-> TRUE, msg |-> "Game started!"]

\* an _assign_roles that deals a role to the creator only
_assign_roles_creator_only(players, roles) ==
    [i \in DOMAIN players |->
        IF i = 1 /\ i <= Len(roles) THEN [players[i] EXCEPT !.role = roles[i]] ELSE players[i]]

\* GameManager._assign_roles: zip(players[:len(roles)], roles)
_assign_roles(players, roles) ==
    [i \in DOMAIN players |->
        IF i <= Len(roles) THEN [players[i] EXCEPT !.role = roles[i]] ELSE players[i]]

\* GameManager.start_game, followed on success by start_round entering _night_phase
start_game(g, user_id, roles) ==
    /\ ret' = [op |-> "start", game |-> g, user_id |-> user_id] @@ start_result(g, user_id)
    /\ IF start_result(g, user_id).ok
       THEN /\ games' = [games EXCEPT ![g] =
                   [@ EXCEPT !.players = _assign_roles(@, roles),
                             !.status = "in_progress", !.round = 1, !.phase = "night"]]
            /\ pc' = [pc EXCEPT ![g] = "night_wait"]
       ELSE UNCHANGED <<games, pc>>
    /\ UNCHANGED <<pending_actions, night_outcome, day_outcome, ledger>>

\* a cancel_game that does not ask whether the session is still waiting
cancel_result_any_status(g, user_id) ==
    IF g \notin DOMAIN games THEN [ok |-> FALSE, msg |-> "Game not found!"]
    ELSE IF games[g].creator_id # user_id THEN [ok |-> FALSE, msg |-> "Only creator can cancel!"]
    ELSE [ok |-> TRUE, msg |-> "Game cancelled!"]

\* the return value of cancel_game
cancel_result(g, user_id) ==
    IF g \notin DOMAIN games THEN [ok |-> FALSE, msg |-> "Game not found!"]
    ELSE IF games[g].creator_id # user_id THEN [ok |-> FALSE, msg |-> "Only creator can cancel!"]
    ELSE IF games[g].status # "waiting" THEN [ok |-> FALSE, msg |-> "Game in progress!"]
    ELSE [ok |-> TRUE, msg |-> "Game cancelled!"]

\* a cancel_game that empties the registry and the buffers
cancel_game_all(g, user_id) ==
    /\ ret' = [op |-> "cancel", game |-> g, user_id |-> user_id] @@ cancel_result(g, user_id)
    /\ IF cancel_result(g, user_id).ok
       THEN /\ games' = EmptyDict
            /\ pending_actions' = EmptyDict
            /\ pc' = EmptyDict
            /\ night_outcome' = EmptyDict
            /\ day_outcome' = EmptyDict
       ELSE UNCHANGED <<games, pending_actions, pc, night_outcome, day_outcome>>
    /\ UNCHANGED ledger

\* GameManager.cancel_game
cancel_game(g, user_id) ==
    /\ ret' = [op |-> "cancel", game |-> g, user_id |-> user_id] @@ cancel_result(g, user_id)
    /\ IF cancel_result(g, user_id).ok
       THEN /\ games' = Pop(games, g)
            /\ pending_actions' = Pop(pending_actions, g)
            /\ pc' = Pop(pc, g)
            /\ night_outcome' = Pop(night_outcome, g)
            /\ day_outcome' = Pop(day_outcome, g)
       ELSE UNCHANGED <<games, pending_actions, pc, night_outcome, day_outcome>>
    /\ UNCHANGED ledger

-----------------------------------------------------------------------------
(* game_manager.py: submissions *)

Emojis == {"knife", "magnifier", "syringe"}

\* an action type read from the emoji alone
_detect_action_type_any_role(emoji, role) ==
    IF role = NoRole THEN "none"
    ELSE IF emoji = "knife" THEN "kill"
    ELSE IF emoji = "magnifier" THEN "investigate"
    ELSE IF emoji = "syringe" THEN "protect"
    ELSE "none"

\* GameManager._detect_action_type
_detect_action_type(emoji, role) ==
    IF role = NoRole THEN "none"
    ELSE IF emoji = "knife" /\ role \in {"mafia", "godfather"} THEN "kill"
    ELSE IF emoji = "magnifier" /\ role = "detective" THEN "investigate"
    ELSE IF emoji = "syringe" /\ role = "doctor" THEN "protect"
    ELSE "none"

\* next((p for p in players if cond(p)), None): the first of the indices of the
\* players that meet cond (0: None)
FirstIndex(indices) ==
    IF indices = {} THEN 0
    ELSE CHOOSE i \in indices : \A j \in indices : i <= j

PlayerIndex(players, user_id) ==
    FirstIndex({i \in DOMAIN players : players[i].user_id = user_id})
\* a lookup of the sender that does not ask whether the sender is alive
AnyPlayerIndex(players, user_id) ==
    FirstIndex({i \in DOMAIN players : players[i].user_id = user_id})
AlivePlayerIndex(players, user_id) ==
    FirstIndex({i \in DOMAIN players : players[i].user_id = user_id /\ players[i].alive})
\* a lookup of the target that does not ask whether the target is alive
TargetIndexAnyone(players, target_username) ==
    FirstIndex({i \in DOMAIN players : players[i].username = target_username})
TargetIndex(players, target_username) ==
    FirstIndex({i \in DOMAIN players :
                    players[i].username = target_username /\ players[i].alive})

\* a game lookup that does not ask for the phase
RoutedGamesAnyPhase(user_id, phase) ==
    {g \in DOMAIN games :
        /\ games[g].status = "in_progress"
        /\ AlivePlayerIndex(games[g].players, user_id) # 0}

\* the games a submission of user_id is routed to: in progress, in `phase`, with
\* user_id a living player
RoutedGames(user_id, phase) ==
    {g \in DOMAIN games :
        /\ games[g].status = "in_progress"
        /\ games[g].phase = phase
        /\ AlivePlayerIndex(games[g].players, user_id) # 0}

\* the first such game in the order of games.items()
RoutedGame(user_id, phase) == CHOOSE g \in RoutedGames(user_id, phase) : TRUE

\* a handle_action that keeps the first target recorded for an action kind
handle_action_keep_first(user_id, emoji, target_username) ==
    /\ UNCHANGED <<pc, night_outcome, day_outcome, ledger, ret>>
    /\ IF RoutedGames(user_id, "night") = {}
       THEN UNCHANGED <<games, pending_actions>>
       ELSE LET g == RoutedGame(user_id, "night")
                players == games[g].players
                actor == AlivePlayerIndex(players, user_id)
                action_type == _detect_action_type(emoji, players[actor].role)
                target == TargetIndex(players, target_username)
                target_user_id == players[target].user_id
            IN  IF action_type = "none" \/ target = 0
                THEN UNCHANGED <<games, pending_actions>>
                ELSE IF action_type \in DOMAIN Get(pending_actions, g, EmptyDict)
                THEN UNCHANGED <<games, pending_actions>>
                ELSE IF action_type = "protect"
                        /\ players[actor].last_protected = target_user_id
                THEN UNCHANGED <<games, pending_actions>>
                ELSE /\ games' = IF action_type = "protect"
                                 THEN [games EXCEPT ![g].players[actor].last_protected =
                                                        target_user_id]
                                 ELSE games
                     /\ pending_actions' =
                            Put(pending_actions, g,
                                Put(Get(pending_actions, g, EmptyDict), action_type,
                                    target_user_id))

\* GameManager.handle_action
handle_action(user_id, emoji, target_username) ==
    /\ UNCHANGED <<pc, night_outcome, day_outcome, ledger, ret>>
    /\ IF RoutedGames(user_id, "night") = {}
       THEN UNCHANGED <<games, pending_actions>>
       ELSE LET g == RoutedGame(user_id, "night")
                players == games[g].players
                actor == AlivePlayerIndex(players, user_id)
                action_type == _detect_action_type(emoji, players[actor].role)
                target == TargetIndex(players, target_username)
                target_user_id == players[target].user_id
            IN  IF action_type = "none" \/ target = 0
                THEN UNCHANGED <<games, pending_actions>>
                ELSE IF action_type = "protect"
                        /\ players[actor].last_protected = target_user_id
                THEN UNCHANGED <<games, pending_actions>>
                ELSE /\ games' = IF action_type = "protect"
                                 THEN [games EXCEPT ![g].players[actor].last_protected =
                                                        target_user_id]
                                 ELSE games
                     /\ pending_actions' =
                            Put(pending_actions, g,
                                Put(Get(pending_actions, g, EmptyDict), action_type,
                                    target_user_id))

\* a handle_vote that keeps the first vote of a voter
handle_vote_keep_first(user_id, target_username) ==
    /\ UNCHANGED <<pending_actions, pc, night_outcome, day_outcome, ledger, ret>>
    /\ IF RoutedGames(user_id, "day") = {}
       THEN UNCHANGED games
       ELSE LET g == RoutedGame(user_id, "day")
                players == games[g].players
                target == TargetIndex(players, target_username)
            IN  IF user_id \in DOMAIN games[g].day_votes
                THEN UNCHANGED games
                ELSE IF target_username = Skip
                THEN games' = [games EXCEPT ![g].day_votes = Put(@, user_id, Skip)]
                ELSE IF target # 0
                THEN games' = [games EXCEPT ![g].day_votes =
                                                Put(@, user_id, players[target].user_id)]
                ELSE UNCHANGED games

\* GameManager.handle_vote; target_username Skip is the Skip Vote button
handle_vote(user_id, target_username) ==
    /\ UNCHANGED <<pending_actions, pc, night_outcome, day_outcome, ledger, ret>>
    /\ IF RoutedGames(user_id, "day") = {}
       THEN UNCHANGED games
       ELSE LET g == RoutedGame(user_id, "day")
                players == games[g].players
                target == TargetIndex(players, target_username)
            IN  IF target_username = Skip
                THEN games' = [games EXCEPT ![g].day_votes = Put(@, user_id, Skip)]
                ELSE IF target # 0
                THEN games' = [games EXCEPT ![g].day_votes =
                                                Put(@, user_id, players[target].user_id)]
                ELSE UNCHANGED games

\* what handle_action answers the sender (message.reply_text): "none" when it
\* returns without an answer
action_reply(user_id, emoji, target_username) ==
    IF RoutedGames(user_id, "night") = {} THEN "none"
    ELSE LET g == RoutedGame(user_id, "night")
             players == games[g].players
             actor == AlivePlayerIndex(players, user_id)
             action_type == _detect_action_type(emoji, players[actor].role)
             target == TargetIndex(players, target_username)
         IN  IF action_type = "none" THEN "none"
             ELSE IF target = 0 THEN "target not found or is dead"
             ELSE IF action_type = "protect"
                     /\ players[actor].last_protected = players[target].user_id
             THEN "cannot protect the same player twice in a row"
             ELSE "action recorded"

\* what handle_vote answers the sender
vote_reply(user_id, target_username) ==
    IF RoutedGames(user_id, "day") = {} THEN "none"
    ELSE LET g == RoutedGame(user_id, "day")
             target == TargetIndex(games[g].players, target_username)
         IN  IF target_username = Skip THEN "vote skipped"
             ELSE IF target # 0 THEN "vote recorded"
             ELSE "target not found or is dead"

-----------------------------------------------------------------------------
(* game_manager.py: win check and end of game *)

AliveWithTeam(players, team) ==
    Cardinality({i \in DOMAIN players :
                    players[i].alive /\ get_role_team(players[i].role) = team})

\* a win check that lets the mafia win only when it outnumbers the villagers
check_game_end_condition_majority(players) ==
    IF \A i \in DOMAIN players : ~players[i].alive THEN <<TRUE, "draw">>
    ELSE IF AliveWithTeam(players, "mafia") = 0 THEN <<TRUE, "villagers">>
    ELSE IF AliveWithTeam(players, "mafia") > AliveWithTeam(players, "villagers")
         THEN <<TRUE, "mafia">>
    ELSE <<FALSE, "none">>

\* a win check without the villagers' branch
check_game_end_condition_no_villagers(players) ==
    IF \A i \in DOMAIN players : ~players[i].alive THEN <<TRUE, "draw">>
    ELSE IF AliveWithTeam(players, "mafia") >= AliveWithTeam(players, "villagers")
         THEN <<TRUE, "mafia">>
    ELSE <<FALSE, "none">>

\* GameManager.check_game_end_condition: <<game_ended, winner>>
check_game_end_condition(players) ==
    IF \A i \in DOMAIN players : ~players[i].alive THEN <<TRUE, "draw">>
    ELSE IF AliveWithTeam(players, "mafia") = 0 THEN <<TRUE, "villagers">>
    ELSE IF AliveWithTeam(players, "mafia") >= AliveWithTeam(players, "villagers")
         THEN <<TRUE, "mafia">>
    ELSE <<FALSE, "none">>

\* an _end_game without its already-finished guard
_end_game_unguarded(gs, g, winner) ==
    IF g \notin DOMAIN gs
    THEN /\ games' = gs
         /\ UNCHANGED pc
    ELSE /\ games' = [gs EXCEPT ![g].status = "finished", ![g].winner = winner]
         /\ pc' = [pc EXCEPT ![g] = "rewarding"]

\* GameManager._end_game up to its first await (send_victory_animation); gs is the
\* registry as the caller left it
_end_game(gs, g, winner) ==
    IF g \notin DOMAIN gs \/ gs[g].status = "finished"
    THEN /\ games' = gs
         /\ UNCHANGED pc
    ELSE /\ games' = [gs EXCEPT ![g].status = "finished", ![g].winner = winner]
         /\ pc' = [pc EXCEPT ![g] = "rewarding"]

\* the winners list of _end_game
IsWinner(winner, role) ==
    \/ winner = "villagers" /\ ~is_evil_role(role)
    \/ winner = "mafia" /\ is_evil_role(role)
    \/ winner = "jester" /\ role = "jester"

\* a reward without the bonus for the rounds played
_calculate_rewards_flat(game, player, won) ==
    [xp |-> GAME_SETTINGS[game.mode].base_xp_reward
            + (IF won THEN 100 ELSE 0) + (IF player.alive THEN 50 ELSE 0),
     coins |-> 50 + (IF won THEN 50 ELSE 0) + (IF player.alive THEN 25 ELSE 0)]

\* GameManager._calculate_rewards
_calculate_rewards(game, player, won) ==
    [xp |-> GAME_SETTINGS[game.mode].base_xp_reward
            + (IF won THEN 100 ELSE 0) + (IF player.alive THEN 50 ELSE 0)
            + game.round * 5,
     coins |-> 50 + (IF won THEN 50 ELSE 0) + (IF player.alive THEN 25 ELSE 0)]

\* the calls add_win or add_loss, add_xp and add_coins of the reward loop for one
\* player (the level-up bonus add_xp pays on its own is not part of the ledger)
Award(entry, won, rewards) ==
    [wins |-> entry.wins + (IF won THEN 1 ELSE 0),
     losses |-> entry.losses + (IF won THEN 0 ELSE 1),
     xp |-> entry.xp + rewards.xp,
     coins |-> entry.coins + rewards.coins,
     xp_awards |-> entry.xp_awards + 1,
     coin_awards |-> entry.coin_awards + 1]

\* GameManager._end_game from the reward loop to its end
DistributeRewards(g) ==
    /\ g \in DOMAIN pc /\ pc[g] = "rewarding"
    /\ LET game == games[g]
           PlayerOf(u) == game.players[PlayerIndex(game.players, u)]
       IN  ledger' = [u \in Users |->
                        IF u \in Roster(game)
                        THEN Award(ledger[u], IsWinner(game.winner, PlayerOf(u).role),
                                   _calculate_rewards(game, PlayerOf(u),
                                        IsWinner(game.winner, PlayerOf(u).role)))
                        ELSE ledger[u]]
    /\ pending_actions' = Pop(pending_actions, g)
    /\ pc' = [pc EXCEPT ![g] = "done"]
    /\ UNCHANGED <<games, night_outcome, day_outcome, ret>>

\* _end_game called once more for a finished game
EndGameAgain(g, winner) ==
    /\ g \in DOMAIN games /\ games[g].status = "finished"
    /\ _end_game(games, g, winner)
    /\ UNCHANGED <<pending_actions, night_outcome, day_outcome, ledger, ret>>

-----------------------------------------------------------------------------
(* game_manager.py: night resolution *)

\* a protection reset that also brings every player back to life
ClearProtectionAndRevive(players) ==
    [i \in DOMAIN players |-> [players[i] EXCEPT !.protected = FALSE, !.alive = TRUE]]

\* a night resolution that keeps the protection of the nights before
ClearProtectionNever(players) == players

ClearProtection(players) == [i \in DOMAIN players |-> [players[i] EXCEPT !.protected = FALSE]]

\* a protection loop that shields the whole roster once a protection is recorded
ApplyProtectAll(players, protect_target) ==
    IF protect_target # NoUser /\ PlayerIndex(players, protect_target) # 0
    THEN [i \in DOMAIN players |-> [players[i] EXCEPT !.protected = TRUE]]
    ELSE players

\* the protection loop of _process_night_actions
ApplyProtect(players, protect_target) ==
    IF protect_target # NoUser /\ PlayerIndex(players, protect_target) # 0
    THEN [players EXCEPT ![PlayerIndex(players, protect_target)].protected = TRUE]
    ELSE players

\* the kill loop of _process_night_actions finds its target unprotected
KillLands(players, kill_target) ==
    /\ kill_target # NoUser
    /\ PlayerIndex(players, kill_target) # 0
    /\ ~players[PlayerIndex(players, kill_target)].protected

\* the kill loop of _process_night_actions finds its target protected
KillBlocked(players, kill_target) ==
    /\ kill_target # NoUser
    /\ PlayerIndex(players, kill_target) # 0
    /\ players[PlayerIndex(players, kill_target)].protected

\* a kill loop that ignores the protected flag
ApplyKillIgnoringProtection(players, kill_target) ==
    IF kill_target # NoUser /\ PlayerIndex(players, kill_target) # 0
    THEN [players EXCEPT ![PlayerIndex(players, kill_target)].alive = FALSE]
    ELSE players

\* a kill loop that takes the first player when no kill was submitted
ApplyKillOrFirst(players, kill_target) ==
    IF kill_target = NoUser
    THEN [players EXCEPT ![1].alive = FALSE]
    ELSE IF KillLands(players, kill_target)
    THEN [players EXCEPT ![PlayerIndex(players, kill_target)].alive = FALSE]
    ELSE players

\* the kill loop of _process_night_actions
ApplyKill(players, kill_target) ==
    IF KillLands(players, kill_target)
    THEN [players EXCEPT ![PlayerIndex(players, kill_target)].alive = FALSE]
    ELSE players

\* an investigation loop that reports the team of every role, the godfather's too
InvestigationResultByTeam(players, investigate_target) ==
    IF investigate_target = NoUser \/ PlayerIndex(players, investigate_target) = 0
    THEN "none"
    ELSE IF get_role_team(players[PlayerIndex(players, investigate_target)].role) = "mafia"
    THEN "mafia"
    ELSE "innocent"

\* the investigation loop of _process_night_actions
InvestigationResult(players, investigate_target) ==
    IF investigate_target = NoUser \/ PlayerIndex(players, investigate_target) = 0
    THEN "none"
    ELSE LET role == players[PlayerIndex(players, investigate_target)].role
         IN  IF role = "godfather" THEN "innocent"
             ELSE IF get_role_team(role) = "mafia" THEN "mafia"
             ELSE "innocent"

\* a night that is resolved only once an action has been recorded
NightResolveIfActed(g) ==
    /\ g \in DOMAIN pc /\ pc[g] = "night_wait"
    /\ Get(pending_actions, g, EmptyDict) # EmptyDict
    /\ LET actions == Get(pending_actions, g, EmptyDict)
           kill_target == Get(actions, "kill", NoUser)
           protect_target == Get(actions, "protect", NoUser)
           investigate_target == Get(actions, "investigate", NoUser)
           cleared == ClearProtection(games[g].players)
           shielded == ApplyProtect(cleared, protect_target)
           after == ApplyKill(shielded, kill_target)
           eliminated == IF KillLands(shielded, kill_target) THEN kill_target ELSE NoUser
           protect_hit == protect_target # NoUser /\ PlayerIndex(cleared, protect_target) # 0
           kill_blocked == KillBlocked(shielded, kill_target)
       IN  /\ games' = [games EXCEPT ![g].players = after]
           /\ night_outcome' = [night_outcome EXCEPT ![g] =
                  [eliminated |-> eliminated,
                   protected |-> protect_hit \/ kill_blocked,
                   investigation |-> InvestigationResult(after, investigate_target)]]
    /\ pc' = [pc EXCEPT ![g] = "night_resolved"]
    /\ UNCHANGED <<pending_actions, day_outcome, ledger, ret>>

\* _process_night_actions from reading the buffer to the announcement of the result
NightResolve(g) ==
    /\ g \in DOMAIN pc /\ pc[g] = "night_wait"
    /\ LET actions == Get(pending_actions, g, EmptyDict)
           kill_target == Get(actions, "kill", NoUser)
           protect_target == Get(actions, "protect", NoUser)
           investigate_target == Get(actions, "investigate", NoUser)
           cleared == ClearProtection(games[g].players)
           shielded == ApplyProtect(cleared, protect_target)
           after == ApplyKill(shielded, kill_target)
           eliminated == IF KillLands(shielded, kill_target) THEN kill_target ELSE NoUser
           protect_hit == protect_target # NoUser /\ PlayerIndex(cleared, protect_target) # 0
           kill_blocked == KillBlocked(shielded, kill_target)
       IN  /\ games' = [games EXCEPT ![g].players = after]
           /\ night_outcome' = [night_outcome EXCEPT ![g] =
                  [eliminated |-> eliminated,
                   protected |-> protect_hit \/ kill_blocked,
                   investigation |-> InvestigationResult(after, investigate_target)]]
    /\ pc' = [pc EXCEPT ![g] = "night_resolved"]
    /\ UNCHANGED <<pending_actions, day_outcome, ledger, ret>>

\* a night resolution that goes on to the day without a win check
NightAdvanceUnchecked(g) ==
    /\ g \in DOMAIN pc /\ pc[g] = "night_resolved"
    /\ pending_actions' = Put(pending_actions, g, EmptyDict)
    /\ night_outcome' = [night_outcome EXCEPT ![g] = NoOutcome]
    /\ games' = [games EXCEPT ![g].phase = "day"]
    /\ pc' = [pc EXCEPT ![g] = "day_wait"]
    /\ UNCHANGED <<day_outcome, ledger, ret>>

\* a night resolution that also counts a round
NightAdvanceNextRound(g) ==
    /\ g \in DOMAIN pc /\ pc[g] = "night_resolved"
    /\ pending_actions' = Put(pending_actions, g, EmptyDict)
    /\ night_outcome' = [night_outcome EXCEPT ![g] = NoOutcome]
    /\ IF check_game_end_condition(games[g].players)[1]
       THEN _end_game(games, g, check_game_end_condition(games[g].players)[2])
       ELSE /\ games' = [games EXCEPT ![g].phase = "day", ![g].round = @ + 1]
            /\ pc' = [pc EXCEPT ![g] = "day_wait"]
    /\ UNCHANGED <<day_outcome, ledger, ret>>

\* _process_night_actions from clearing the buffer to the phase change or _end_game
NightAdvance(g) ==
    /\ g \in DOMAIN pc /\ pc[g] = "night_resolved"
    /\ pending_actions' = Put(pending_actions, g, EmptyDict)
    /\ night_outcome' = [night_outcome EXCEPT ![g] = NoOutcome]
    /\ IF check_game_end_condition(games[g].players)[1]
       THEN _end_game(games, g, check_game_end_condition(games[g].players)[2])
       ELSE /\ games' = [games EXCEPT ![g].phase = "day"]
            /\ pc' = [pc EXCEPT ![g] = "day_wait"]
    /\ UNCHANGED <<day_outcome, ledger, ret>>

\* the players after the protection and kill loops of _process_night_actions
NightPlayersAfter(players, actions) ==
    ApplyKill(ApplyProtect(ClearProtection(players), Get(actions, "protect", NoUser)),
              Get(actions, "kill", NoUser))

\* an announcement that adds the investigation result to what is said
night_announcement_with_result(players, actions) ==
    LET kill_target == Get(actions, "kill", NoUser)
        protect_target == Get(actions, "protect", NoUser)
        cleared == ClearProtection(players)
        shielded == ApplyProtect(cleared, protect_target)
        told == InvestigationResult(NightPlayersAfter(players, actions),
                                    Get(actions, "investigate", NoUser))
    IN  IF KillLands(shielded, kill_target)
        THEN [kind |-> "elimination",
              username |-> shielded[PlayerIndex(shielded, kill_target)].username,
              role |-> shielded[PlayerIndex(shielded, kill_target)].role,
              protected |-> FALSE, investigated |-> told]
        ELSE [kind |-> "summary", username |-> NoUser, role |-> NoRole,
              protected |-> \/ (protect_target # NoUser
                                 /\ PlayerIndex(cleared, protect_target) # 0)
                            \/ KillBlocked(shielded, kill_target),
              investigated |-> told]

\* what _process_night_actions sends to the session's chat: the elimination
\* animation (utils.send_elimination_animation) or format_night_summary, which is
\* called without its `investigated` argument
night_announcement(players, actions) ==
    LET kill_target == Get(actions, "kill", NoUser)
        protect_target == Get(actions, "protect", NoUser)
        cleared == ClearProtection(players)
        shielded == ApplyProtect(cleared, protect_target)
    IN  IF KillLands(shielded, kill_target)
        THEN [kind |-> "elimination",
              username |-> shielded[PlayerIndex(shielded, kill_target)].username,
              role |-> shielded[PlayerIndex(shielded, kill_target)].role,
              protected |-> FALSE, investigated |-> "none"]
        ELSE [kind |-> "summary", username |-> NoUser, role |-> NoRole,
              protected |-> \/ (protect_target # NoUser
                                 /\ PlayerIndex(cleared, protect_target) # 0)
                            \/ KillBlocked(shielded, kill_target),
              investigated |-> "none"]

\* what _process_night_actions sends with context.bot.send_message: the result, to
\* the first living detective
investigation_messages(players, actions) ==
    LET after == NightPlayersAfter(players, actions)
        investigate_target == Get(actions, "investigate", NoUser)
        result == InvestigationResult(after, investigate_target)
        detectives == {i \in DOMAIN after : after[i].role = "detective" /\ after[i].alive}
    IN  IF result = "none" \/ detectives = {} THEN {}
        ELSE {[to |-> after[FirstIndex(detectives)].user_id,
               target_username |-> after[PlayerIndex(after, investigate_target)].username,
               result |-> result]}

-----------------------------------------------------------------------------
(* game_manager.py: day resolution *)

\* vote_counts of _process_day_votes: target -> number of votes, skips left out
vote_counts(votes) ==
    [t \in {votes[v] : v \in {w \in DOMAIN votes : votes[w] # Skip}} |->
        Cardinality({v \in DOMAIN votes : votes[v] = t})]

\* sorted(vote_counts.items(), key=count, reverse=True): <<target, count>> pairs
RECURSIVE sorted_votes(_)
sorted_votes(counts) ==
    IF DOMAIN counts = {} THEN <<>>
    ELSE LET top == CHOOSE t \in DOMAIN counts : \A o \in DOMAIN counts : counts[t] >= counts[o]
         IN  <<(<<top, counts[top]>>)>> \o sorted_votes(Pop(counts, top))

\* a tie test that never finds a tie
IsTieNever(sorted) == FALSE

\* the tie test of _process_day_votes
IsTie(sorted) == Len(sorted) > 1 /\ sorted[1][2] = sorted[2][2]

\* a vote that eliminates the target with the fewest votes
VotedOutLast(players, votes) ==
    LET sorted == sorted_votes(vote_counts(votes))
    IN  IF DOMAIN votes = {} \/ sorted = <<>> THEN NoUser
        ELSE IF Len(sorted) > 1 /\ sorted[1][2] = sorted[2][2] THEN NoUser
        ELSE IF PlayerIndex(players, sorted[Len(sorted)][1]) = 0 THEN NoUser
        ELSE sorted[Len(sorted)][1]

\* the player the vote eliminates, NoUser when there is none
VotedOut(players, votes) ==
    LET sorted == sorted_votes(vote_counts(votes))
    IN  IF DOMAIN votes = {} \/ sorted = <<>> THEN NoUser
        ELSE IF IsTie(sorted) THEN NoUser
        ELSE IF PlayerIndex(players, sorted[1][1]) = 0 THEN NoUser
        ELSE sorted[1][1]

\* _process_day_votes from the tally to the announcement of the result
DayResolve(g) ==
    /\ g \in DOMAIN pc /\ pc[g] = "day_wait"
    /\ LET players == games[g].players
           out == VotedOut(players, games[g].day_votes)
       IN  /\ games' = IF out = NoUser THEN games
                       ELSE [games EXCEPT ![g].players[PlayerIndex(players, out)].alive = FALSE]
           /\ day_outcome' = [day_outcome EXCEPT ![g] =
                  [eliminated |-> out,
                   tie |-> IsTie(sorted_votes(vote_counts(games[g].day_votes)))]]
    /\ pc' = [pc EXCEPT ![g] = "day_resolved"]
    /\ UNCHANGED <<pending_actions, night_outcome, ledger, ret>>

\* a day resolution that does not count the round
DayAdvanceSameRound(g) ==
    /\ g \in DOMAIN pc /\ pc[g] = "day_resolved"
    /\ day_outcome' = [day_outcome EXCEPT ![g] = NoTally]
    /\ LET reset == [games EXCEPT ![g].day_votes = EmptyDict]
       IN  IF check_game_end_condition(reset[g].players)[1]
           THEN _end_game(reset, g, check_game_end_condition(reset[g].players)[2])
           ELSE /\ games' = [reset EXCEPT ![g].phase = "night"]
                /\ pc' = [pc EXCEPT ![g] = "night_wait"]
    /\ UNCHANGED <<pending_actions, night_outcome, ledger, ret>>

\* a day resolution that keeps the votes for the next day
DayAdvanceKeepVotes(g) ==
    /\ g \in DOMAIN pc /\ pc[g] = "day_resolved"
    /\ day_outcome' = [day_outcome EXCEPT ![g] = NoTally]
    /\ IF check_game_end_condition(games[g].players)[1]
       THEN _end_game(games, g, check_game_end_condition(games[g].players)[2])
       ELSE /\ games[g].round < MaxRound
            /\ games' = [games EXCEPT ![g].round = @ + 1, ![g].phase = "night"]
            /\ pc' = [pc EXCEPT ![g] = "night_wait"]
    /\ UNCHANGED <<pending_actions, night_outcome, ledger, ret>>

\* a day resolution that is followed by another day
DayAdvanceToDay(g) ==
    /\ g \in DOMAIN pc /\ pc[g] = "day_resolved"
    /\ day_outcome' = [day_outcome EXCEPT ![g] = NoTally]
    /\ LET reset == [games EXCEPT ![g].day_votes = EmptyDict]
       IN  IF check_game_end_condition(reset[g].players)[1]
           THEN _end_game(reset, g, check_game_end_condition(reset[g].players)[2])
           ELSE /\ reset[g].round < MaxRound
                /\ games' = [reset EXCEPT ![g].round = @ + 1]
                /\ pc' = [pc EXCEPT ![g] = "day_wait"]
    /\ UNCHANGED <<pending_actions, night_outcome, ledger, ret>>

\* _process_day_votes from resetting the votes to the phase change or _end_game
DayAdvance(g) ==
    /\ g \in DOMAIN pc /\ pc[g] = "day_resolved"
    /\ day_outcome' = [day_outcome EXCEPT ![g] = NoTally]
    /\ LET reset == [games EXCEPT ![g].day_votes = EmptyDict]
       IN  IF check_game_end_condition(reset[g].players)[1]
           THEN _end_game(reset, g, check_game_end_condition(reset[g].players)[2])
           ELSE /\ reset[g].round < MaxRound
                /\ games' = [reset EXCEPT ![g].round = @ + 1, ![g].phase = "night"]
                /\ pc' = [pc EXCEPT ![g] = "night_wait"]
    /\ UNCHANGED <<pending_actions, night_outcome, ledger, ret>>

-----------------------------------------------------------------------------
(* Requests *)

\* the next user to press Join: the lowest id not yet in the roster
NextJoiner(g) ==
    IF g \in DOMAIN games /\ (Users \ Roster(games[g])) # {}
    THEN {CHOOSE u \in Users \ Roster(games[g]) : \A v \in Users \ Roster(games[g]) : u <= v}
    ELSE {}

Init ==
    /\ games = EmptyDict
    /\ pending_actions = EmptyDict
    /\ pc = EmptyDict
    /\ night_outcome = EmptyDict
    /\ day_outcome = EmptyDict
    /\ ledger = [u \in Users |-> NoLedger]
    /\ ret = NoRet

\* the lobby keyboard of a game is on screen: start_game_action removes it
LobbyOpen(g) == IF g \in DOMAIN games THEN games[g].status = "waiting" ELSE TRUE

\* the users who press the lobby buttons: the creator and one other
Requesters == {1, 2}

CreateGame == \E g \in GameIds, mode \in Modes : create_game(g, mode, 1)

JoinGame ==
    \E g \in GameIds : \E u \in NextJoiner(g) \cup {1} : LobbyOpen(g) /\ join_game(g, u)

StartGame ==
    \E g \in GameIds, u \in Requesters :
        /\ LobbyOpen(g)
        /\ \E roles \in IF start_result(g, u).ok
                        THEN SeededRoles(Len(games[g].players), games[g].mode)
                        ELSE {<<>>} :
                start_game(g, u, roles)

CancelGame == \E g \in GameIds, u \in Requesters : LobbyOpen(g) /\ cancel_game(g, u)

\* the users who send night actions, and the texts they send
Actors == 1..5
KillProtect ==
    \E u \in Actors, emoji \in {"knife", "syringe"}, name \in TargetNames :
        handle_action(u, emoji, name)

HandleVote ==
    \E u \in (1..MaxVoter) \cup {MaxUser}, name \in TargetNames \cup {Skip} :
        handle_vote(u, name)

NightTimer == \E g \in GameIds : NightResolve(g)
NightDone == \E g \in GameIds : NightAdvance(g)
DayTimer == \E g \in GameIds : DayResolve(g)
DayDone == \E g \in GameIds : DayAdvance(g)
Rewards == \E g \in GameIds : DistributeRewards(g)
EndAgain == \E g \in GameIds, winner \in {"mafia", "villagers"} : EndGameAgain(g, winner)

Next ==
    \/ CreateGame
    \/ JoinGame
    \/ StartGame
    \/ CancelGame
    \/ KillProtect
    \/ HandleVote
    \/ NightTimer
    \/ NightDone
    \/ DayTimer
    \/ DayDone
    \/ Rewards
    \/ EndAgain

Spec == Init /\ [][Next]_vars

-----------------------------------------------------------------------------
(* The day phase on its own: a 5v5 game at its first day, after a night in   *)
(* which the mafia killed `killed` (NoUser: nobody), with more voters.       *)

\* users 1..MaxDayVoter cast day votes
MaxDayVoter == 4

StartedPlayers(n, roles, killed) ==
    [i \in 1..n |-> [NewPlayer(i) EXCEPT !.role = roles[i], !.alive = (i # killed)]]

StartedGame(mode, roles, killed) ==
    [NewGame(mode, 1) EXCEPT !.players = StartedPlayers(Len(roles), roles, killed),
                             !.status = "in_progress", !.round = 1]

StartRet == [op |-> "start", game |-> "G1", user_id |-> 1, ok |-> TRUE, msg |-> "Game started!"]

\* the deal of random stream 0 for a full lobby
FirstDeal(mode) ==
    assign_roles(get_required_players(mode), mode,
                 Shuffle(RoleList(get_required_players(mode), mode),
                         RandomStream(0, get_required_players(mode))))

InitDay ==
    /\ \E killed \in {NoUser, 1} :
            games = [g \in {"G1"} |-> StartedGame("5v5", FirstDeal("5v5"), killed)]
    /\ pending_actions = [g \in {"G1"} |-> EmptyDict]
    /\ pc = [g \in {"G1"} |-> "day_wait"]
    /\ night_outcome = [g \in {"G1"} |-> NoOutcome]
    /\ day_outcome = [g \in {"G1"} |-> NoTally]
    /\ ledger = [u \in Users |-> NoLedger]
    /\ ret = StartRet

DayVotes ==
    \E u \in (1..MaxDayVoter) \cup {MaxUser}, name \in TargetNames \cup {Skip} :
        handle_vote(u, name)

NextDay ==
    \/ DayVotes
    \/ DayTimer
    \/ DayDone

SpecDay == InitDay /\ [][NextDay]_vars

-----------------------------------------------------------------------------
(* The vote buffer on its own: the first day of a 5v5 game with few voters,  *)
(* who vote, skip and change their minds.                                    *)

\* users 1..MaxBallot cast and recast votes
MaxBallot == 3

Ballots ==
    \E u \in (1..MaxBallot) \cup {MaxUser}, name \in TargetNames \cup {Skip} :
        handle_vote(u, name)

NextVote ==
    \/ Ballots
    \/ DayTimer
    \/ DayDone

SpecVote == InitDay /\ [][NextVote]_vars

-----------------------------------------------------------------------------
(* The second round on its own: the second night and day of a 5v5 game in    *)
(* whose first round `killed` died (NoUser: nobody) and the doctor did       *)
(* nothing, with the senders of the whole game and a stranger.               *)

InitRound ==
    /\ \E killed \in {NoUser, 1} :
            games = [g \in {"G1"} |->
                        [StartedGame("5v5", FirstDeal("5v5"), killed)
                            EXCEPT !.round = 2, !.phase = "night"]]
    /\ pending_actions = [g \in {"G1"} |-> EmptyDict]
    /\ pc = [g \in {"G1"} |-> "night_wait"]
    /\ night_outcome = [g \in {"G1"} |-> NoOutcome]
    /\ day_outcome = [g \in {"G1"} |-> NoTally]
    /\ ledger = [u \in Users |-> NoLedger]
    /\ ret = StartRet

\* the senders of night actions: the first players, the last player and a stranger
RoundSenders == Actors \cup {get_required_players("5v5"), MaxUser}

RoundActions ==
    \E u \in RoundSenders, emoji \in {"knife", "syringe"}, name \in TargetNames :
        handle_action(u, emoji, name)

NextRound ==
    \/ RoundActions
    \/ HandleVote
    \/ NightTimer
    \/ NightDone
    \/ DayTimer

SpecRound == InitRound /\ [][NextRound]_vars

-----------------------------------------------------------------------------
(* The win check on its own: check_game_end_condition applied, at its two    *)
(* call sites, to rosters of every role and alive flag.                     *)

\* the rosters handed to the win check have WinRoster players
WinRoster == 3

WinPlayers ==
    {[i \in 1..WinRoster |-> [NewPlayer(i) EXCEPT !.role = r[i], !.alive = a[i]]] :
        r \in [1..WinRoster -> Roles], a \in [1..WinRoster -> BOOLEAN]}

InitWin ==
    /\ \E players \in WinPlayers, at \in {"night", "day"} :
            /\ games = [g \in {"G1"} |->
                    [NewGame("5v5", 1) EXCEPT !.players = players, !.status = "in_progress",
                                              !.round = 1, !.phase = at]]
            /\ pc = [g \in {"G1"} |-> IF at = "night" THEN "night_resolved" ELSE "day_resolved"]
    /\ pending_actions = [g \in {"G1"} |-> EmptyDict]
    /\ night_outcome = [g \in {"G1"} |-> NoOutcome]
    /\ day_outcome = [g \in {"G1"} |-> NoTally]
    /\ ledger = [u \in Users |-> NoLedger]
    /\ ret = StartRet

NextWin ==
    \/ NightDone
    \/ DayDone

SpecWin == InitWin /\ [][NextWin]_vars

-----------------------------------------------------------------------------
(* The night phase on its own: a session at its first night whose roster     *)
(* holds a detective and a player of any role, with every action text.      *)

\* the rosters of the night have NightRoster players
NightRoster == 3

\* player 1 is the detective, player 2 has any role, the others are doctors and
\* mafia members in turn
NightPlayers ==
    {[i \in 1..NightRoster |->
        [NewPlayer(i) EXCEPT !.role = IF i = 1 THEN "detective"
                                      ELSE IF i = 2 THEN r
                                      ELSE IF i % 2 = 1 THEN "doctor" ELSE "mafia"]] :
        r \in Roles}

InitNight ==
    /\ \E players \in NightPlayers :
            games = [g \in {"G1"} |->
                        [NewGame("5v5", 1) EXCEPT !.players = players,
                                                  !.status = "in_progress",
                                                  !.round = 1, !.phase = "night"]]
    /\ pc = [g \in {"G1"} |-> "night_wait"]
    /\ pending_actions = [g \in {"G1"} |-> EmptyDict]
    /\ night_outcome = [g \in {"G1"} |-> NoOutcome]
    /\ day_outcome = [g \in {"G1"} |-> NoTally]
    /\ ledger = [u \in Users |-> NoLedger]
    /\ ret = StartRet

\* every player sends every action text, naming a player or nobody known
NightActions ==
    \E u \in 1..NightRoster, emoji \in Emojis, name \in (1..NightRoster) \cup {UnknownName} :
        handle_action(u, emoji, name)

NextNight ==
    \/ NightActions
    \/ NightTimer
    \/ NightDone

SpecNight == InitNight /\ [][NextNight]_vars

-----------------------------------------------------------------------------
(* The deal on its own: start_game on a full lobby, over every outcome of    *)
(* random.shuffle.                                                          *)

FullLobby(mode) ==
    [NewGame(mode, 1) EXCEPT
        !.players = [i \in 1..GAME_SETTINGS[mode].max_players |-> NewPlayer(i)]]

InitDeal ==
    /\ \E mode \in Modes : games = [g \in {"G1"} |-> FullLobby(mode)]
    /\ pending_actions = [g \in {"G1"} |-> EmptyDict]
    /\ pc = [g \in {"G1"} |-> "lobby"]
    /\ night_outcome = [g \in {"G1"} |-> NoOutcome]
    /\ day_outcome = [g \in {"G1"} |-> NoTally]
    /\ ledger = [u \in Users |-> NoLedger]
    /\ ret = [op |-> "join", game |-> "G1", user_id |-> 2, ok |-> TRUE, msg |-> "joined!"]

Deal ==
    \E g \in GameIds :
        /\ start_result(g, 1).ok
        /\ \E roles \in AllRoles(Len(games[g].players), games[g].mode) :
                start_game(g, 1, roles)

NextDeal == Deal

SpecDeal == InitDeal /\ [][NextDeal]_vars

-----------------------------------------------------------------------------
(* The lobby on its own: the lobby buttons pressed in every state of the     *)
(* session, started or not, by the creator, a second player and an outsider. *)

LobbyUsers == Requesters \cup {MaxUser}

JoinAny == \E g \in GameIds : \E u \in NextJoiner(g) \cup {1} : join_game(g, u)

StartAny ==
    \E g \in GameIds, u \in LobbyUsers :
        \E roles \in IF start_result(g, u).ok
                      THEN SeededRoles(Len(games[g].players), games[g].mode)
                      ELSE {<<>>} :
            start_game(g, u, roles)

CancelAny == \E g \in GameIds, u \in LobbyUsers : cancel_game(g, u)

NextLobby ==
    \/ CreateGame
    \/ JoinAny
    \/ StartAny
    \/ CancelAny

SpecLobby == Init /\ [][NextLobby]_vars

-----------------------------------------------------------------------------
(* Sessions to their end with the lobby buttons pressed at any time: a 1v1   *)
(* session from its lobby, which ends with its first night, and a 5v5        *)
(* session at its second day, three villagers dead, which the vote can end.  *)

\* the creator opens a 1v1 lobby
CreateDuel == \E g \in GameIds : create_game(g, "1v1", 1)

\* the players who died before the second day: two at night, one by vote
LateDead == {7, 8, 9}

\* a 5v5 game at its second day
LateGame ==
    [StartedGame("5v5", FirstDeal("5v5"), NoUser)
        EXCEPT !.round = 2, !.phase = "day",
               !.players = [i \in DOMAIN @ |-> [@[i] EXCEPT !.alive = (i \notin LateDead)]]]

InitLate ==
    \/ Init
    \/ /\ games = [g \in {"G1"} |-> LateGame]
       /\ pending_actions = [g \in {"G1"} |-> EmptyDict]
       /\ pc = [g \in {"G1"} |-> "day_wait"]
       /\ night_outcome = [g \in {"G1"} |-> NoOutcome]
       /\ day_outcome = [g \in {"G1"} |-> NoTally]
       /\ ledger = [u \in Users |-> NoLedger]
       /\ ret = StartRet

NextLate ==
    \/ CreateDuel
    \/ JoinAny
    \/ StartAny
    \/ CancelAny
    \/ KillProtect
    \/ HandleVote
    \/ NightTimer
    \/ NightDone
    \/ DayTimer
    \/ DayDone
    \/ Rewards
    \/ EndAgain

SpecLate == InitLate /\ [][NextLate]_vars

-----------------------------------------------------------------------------
(* Two sessions side by side: a 5v5 session at the day of its last round     *)
(* and a 1v1 session that the first two players of the other open, play and  *)
(* end.                                                                      *)

TwoIds == {"G1", "G2"}

InitTwo ==
    /\ games = [g \in {"G2"} |-> [LateGame EXCEPT !.round = MaxRound]]
    /\ pending_actions = [g \in {"G2"} |-> EmptyDict]
    /\ pc = [g \in {"G2"} |-> "day_wait"]
    /\ night_outcome = [g \in {"G2"} |-> NoOutcome]
    /\ day_outcome = [g \in {"G2"} |-> NoTally]
    /\ ledger = [u \in Users |-> NoLedger]
    /\ ret = StartRet

NextTwo ==
    \/ CreateDuel
    \/ \E g \in TwoIds : \E u \in NextJoiner(g) : join_game(g, u)
    \/ \E g \in TwoIds :
          \E roles \in IF start_result(g, 1).ok
                        THEN SeededRoles(Len(games[g].players), games[g].mode)
                        ELSE {<<>>} :
              start_game(g, 1, roles)
    \/ \E g \in TwoIds : cancel_game(g, 1)
    \/ KillProtect
    \/ HandleVote
    \/ \E g \in TwoIds : NightResolve(g)
    \/ \E g \in TwoIds : NightAdvance(g)
    \/ \E g \in TwoIds : DayResolve(g)
    \/ \E g \in TwoIds : DayAdvance(g)
    \/ \E g \in TwoIds : DistributeRewards(g)

SpecTwo == InitTwo /\ [][NextTwo]_vars

-----------------------------------------------------------------------------
(* The end of a game on its own: the win check and the reward loop applied   *)
(* to rosters of the configured roles, of every alive flag, in both modes    *)
(* and at every round.                                                      *)

\* the roles _assign_roles can deal: the keys of the role tables of config.py
DealtRoles == {"mafia", "detective", "doctor", "villager"}

RewardPlayers ==
    {[i \in 1..WinRoster |-> [NewPlayer(i) EXCEPT !.role = r[i], !.alive = a[i]]] :
        r \in [1..WinRoster -> DealtRoles], a \in [1..WinRoster -> BOOLEAN]}

InitReward ==
    /\ \E players \in RewardPlayers, at \in {"night", "day"}, mode \in Modes,
          round \in 1..MaxRound :
            /\ games = [g \in {"G1"} |->
                    [NewGame(mode, 1) EXCEPT !.players = players, !.status = "in_progress",
                                             !.round = round, !.phase = at]]
            /\ pc = [g \in {"G1"} |-> IF at = "night" THEN "night_resolved" ELSE "day_resolved"]
    /\ pending_actions = [g \in {"G1"} |-> EmptyDict]
    /\ night_outcome = [g \in {"G1"} |-> NoOutcome]
    /\ day_outcome = [g \in {"G1"} |-> NoTally]
    /\ ledger = [u \in Users |-> NoLedger]
    /\ ret = StartRet

NextReward ==
    \/ NightDone
    \/ DayDone
    \/ Rewards
    \/ EndAgain

SpecReward == InitReward /\ [][NextReward]_vars

-----------------------------------------------------------------------------
(* The phase timers: a 5v5 game from its first night on. asyncio.sleep of    *)
(* _night_phase and _day_phase returns after the phase's duration and the    *)
(* event loop then runs the coroutine on, which the fairness conditions      *)
(* state.                                                                   *)

InitTimer ==
    /\ games = [g \in {"G1"} |->
                    [StartedGame("5v5", FirstDeal("5v5"), NoUser)
                        EXCEPT !.phase = "night", !.round = MaxRound - 1]]
    /\ pending_actions = [g \in {"G1"} |-> EmptyDict]
    /\ pc = [g \in {"G1"} |-> "night_wait"]
    /\ night_outcome = [g \in {"G1"} |-> NoOutcome]
    /\ day_outcome = [g \in {"G1"} |-> NoTally]
    /\ ledger = [u \in Users |-> NoLedger]
    /\ ret = StartRet

\* the senders of night actions: the creator, who is dealt mafia, and the doctor
TimerSenders == {1, 4}

\* the players named on the buttons pressed: the senders themselves
TimerNames == {username_of(u) : u \in TimerSenders}

TimerActions ==
    \E u \in TimerSenders, emoji \in {"knife", "syringe"}, name \in TimerNames :
        handle_action(u, emoji, name)

TimerVotes ==
    \E u \in TimerSenders, name \in TimerNames \cup {Skip} : handle_vote(u, name)

NextTimer ==
    \/ TimerActions
    \/ TimerVotes
    \/ NightTimer
    \/ NightDone
    \/ DayTimer
    \/ DayDone

SpecTimer ==
    /\ InitTimer /\ [][NextTimer]_vars
    /\ WF_vars(NightTimer)
    /\ WF_vars(DayTimer)

-----------------------------------------------------------------------------
(* A game that goes on for any number of rounds. The round is counted up to  *)
(* MaxRound and then left as it is: beyond the messages sent and the reward  *)
(* paid at the end, no step of a game depends on the round.                  *)

\* _process_day_votes from the reset of the votes to the phase change or _end_game
DayAdvanceOn(g) ==
    /\ g \in DOMAIN pc /\ pc[g] = "day_resolved"
    /\ day_outcome' = [day_outcome EXCEPT ![g] = NoTally]
    /\ LET reset == [games EXCEPT ![g].day_votes = EmptyDict]
       IN  IF check_game_end_condition(reset[g].players)[1]
           THEN _end_game(reset, g, check_game_end_condition(reset[g].players)[2])
           ELSE /\ games' = [reset EXCEPT ![g].round = IF @ < MaxRound THEN @ + 1 ELSE @,
                                          ![g].phase = "night"]
                /\ pc' = [pc EXCEPT ![g] = "night_wait"]
    /\ UNCHANGED <<pending_actions, night_outcome, ledger, ret>>

DayOn == \E g \in GameIds : DayAdvanceOn(g)

\* a 5v5 game in its second day, three mafia members and four others alive
InitForever ==
    /\ games = [g \in {"G1"} |-> LateGame]
    /\ pending_actions = [g \in {"G1"} |-> EmptyDict]
    /\ pc = [g \in {"G1"} |-> "day_wait"]
    /\ night_outcome = [g \in {"G1"} |-> NoOutcome]
    /\ day_outcome = [g \in {"G1"} |-> NoTally]
    /\ ledger = [u \in Users |-> NoLedger]
    /\ ret = StartRet

NextForever ==
    \/ TimerActions
    \/ TimerVotes
    \/ NightTimer
    \/ NightDone
    \/ DayTimer
    \/ DayOn
    \/ Rewards

\* the coroutine of a game runs on after every asyncio.sleep and every await;
\* nothing is assumed about the messages players send
SpecForever ==
    /\ InitForever /\ [][NextForever]_vars
    /\ WF_vars(NightTimer) /\ WF_vars(NightDone)
    /\ WF_vars(DayTimer) /\ WF_vars(DayOn)
    /\ WF_vars(Rewards)

-----------------------------------------------------------------------------
(* Properties *)

AliveIds(game) == {game.players[i].user_id : i \in {j \in DOMAIN game.players : game.players[j].alive}}

\* the step of game g from position `from` to position `to`
Moves(g, from, to) ==
    /\ g \in DOMAIN pc /\ pc[g] = from
    /\ g \in DOMAIN pc' /\ pc'[g] = to

\* the number of votes the buffer holds for target t
VotesFor(votes, t) == Cardinality({v \in DOMAIN votes : votes[v] = t})

\* the targets voted for, abstentions left out
Voted(votes) == {votes[v] : v \in DOMAIN votes} \ {Skip}

\* two different targets share the highest count
TopTwoEqual(votes) ==
    \E a, b \in Voted(votes) :
        /\ a # b
        /\ VotesFor(votes, a) = VotesFor(votes, b)
        /\ \A o \in Voted(votes) : VotesFor(votes, o) <= VotesFor(votes, a)

\* t alone holds the highest count
StrictTop(votes, t) ==
    /\ t \in Voted(votes)
    /\ \A o \in Voted(votes) \ {t} : VotesFor(votes, o) < VotesFor(votes, t)

\* C1: a night resolution whose buffer holds the same living player X as protect
\* target and as kill target leaves X alive, whatever X's role, eliminates nobody
\* and reports the night as protected.
C1_ProtectedSurvives ==
    [][\A g \in GameIds :
          LET actions == Get(pending_actions, g, EmptyDict)
              X == Get(actions, "kill", NoUser)
          IN  (/\ Moves(g, "night_wait", "night_resolved")
               /\ X # NoUser
               /\ Get(actions, "protect", NoUser) = X
               /\ X \in AliveIds(games[g]))
              => /\ X \in AliveIds(games'[g])
                 /\ AliveIds(games'[g]) = AliveIds(games[g])
                 /\ night_outcome'[g].protected
                 /\ night_outcome'[g].eliminated = NoUser]_vars

\* a resolved night whose kill target was the protected detective
C1_Witness ==
    \E g \in DOMAIN pc :
        /\ pc[g] = "night_resolved"
        /\ "kill" \in DOMAIN pending_actions[g] /\ "protect" \in DOMAIN pending_actions[g]
        /\ pending_actions[g]["kill"] = pending_actions[g]["protect"]
        /\ pending_actions[g]["kill"] \in AliveIds(games[g])
        /\ games[g].players[PlayerIndex(games[g].players, pending_actions[g]["kill"])].role
                = "detective"
        /\ night_outcome[g].protected
        /\ night_outcome[g].eliminated = NoUser

\* C2: a day resolution in which the two highest counts among non-abstain targets
\* are equal eliminates nobody.
C2_TieEliminatesNobody ==
    [][\A g \in GameIds :
          (Moves(g, "day_wait", "day_resolved") /\ TopTwoEqual(games[g].day_votes))
          => /\ AliveIds(games'[g]) = AliveIds(games[g])
             /\ day_outcome'[g].eliminated = NoUser]_vars

\* a resolved day whose two leading targets had two votes each
C2_Witness ==
    \E g \in DOMAIN pc :
        /\ pc[g] = "day_resolved"
        /\ TopTwoEqual(games[g].day_votes)
        /\ \E t \in Voted(games[g].day_votes) : VotesFor(games[g].day_votes, t) = 2
        /\ day_outcome[g].tie
        /\ day_outcome[g].eliminated = NoUser

\* C3: a day resolution in which exactly one target holds the strictly highest
\* count eliminates that target and no other player.
C3_StrictTopEliminated ==
    [][\A g \in GameIds : \A t \in Users :
          (Moves(g, "day_wait", "day_resolved") /\ StrictTop(games[g].day_votes, t))
          => /\ t \in AliveIds(games[g])
             /\ AliveIds(games'[g]) = AliveIds(games[g]) \ {t}
             /\ day_outcome'[g].eliminated = t]_vars

\* a resolved day that eliminated the leader of a split vote
C3_Witness ==
    \E g \in DOMAIN pc : \E t \in Users :
        /\ pc[g] = "day_resolved"
        /\ StrictTop(games[g].day_votes, t)
        /\ Cardinality(Voted(games[g].day_votes)) >= 2
        /\ Skip \in {games[g].day_votes[v] : v \in DOMAIN games[g].day_votes}
        /\ day_outcome[g].eliminated = t
        /\ t \notin AliveIds(games[g])

\* the living players of the roster whose role is on `team`
LivingOn(game, team) ==
    Cardinality({i \in DOMAIN game.players :
                    game.players[i].alive /\ get_role_team(game.players[i].role) = team})

\* the session went through its win check and was left where the check put it
WinChecked(g) == g \in DOMAIN pc /\ pc[g] \in {"rewarding", "day_wait", "night_wait"}

C5_WinnerIsATeam ==
    \A g \in DOMAIN games :
        /\ AliveIds(games[g]) # {}
        /\ games[g].winner \in {"none", "mafia", "villagers"}
        /\ (games[g].status = "finished") = (games[g].winner \in {"mafia", "villagers"})

\* a 5v5 session the villagers won after two night kills and a day vote
C5_Witness ==
    \E g \in DOMAIN games :
        /\ games[g].mode = "5v5"
        /\ games[g].status = "finished"
        /\ games[g].winner = "villagers"
        /\ games[g].round = 2
        /\ Cardinality(AliveIds(games[g])) = 7

\* C6: the round of a session never decreases, and a day resolution that does not
\* end the game increases it by exactly 1.
C6_RoundCounts ==
    [][\A g \in DOMAIN games \cap DOMAIN games' :
          /\ games'[g].round >= games[g].round
          /\ (pc[g] = "day_resolved" /\ pc'[g] # pc[g] /\ games'[g].status = "in_progress")
             => games'[g].round = games[g].round + 1]_vars

\* a second night reached through a day that eliminated a player
C6_Witness ==
    \E g \in DOMAIN games :
        /\ games[g].status = "in_progress"
        /\ games[g].phase = "night"
        /\ games[g].round = 2
        /\ pc[g] = "night_wait"
        /\ Cardinality(AliveIds(games[g])) = 8

\* C7: a night resolution that does not end the game takes the session from night
\* to day with its round unchanged; the round changes only when start_game sets it
\* to 1 and when a day resolution that does not end the game adds 1.
C7_NightKeepsRound ==
    [][\A g \in DOMAIN games \cap DOMAIN games' :
          /\ (pc[g] = "night_resolved" /\ pc'[g] # pc[g] /\ games'[g].status = "in_progress")
             => /\ games[g].phase = "night"
                /\ games'[g].phase = "day"
                /\ games'[g].round = games[g].round
          /\ games'[g].round # games[g].round
             => \/ /\ games[g].status = "waiting" /\ games'[g].status = "in_progress"
                   /\ ret'.op = "start" /\ ret'.ok
                   /\ games'[g].round = 1
                \/ /\ pc[g] = "day_resolved" /\ games'[g].status = "in_progress"
                   /\ games'[g].round = games[g].round + 1]_vars

\* the second day of a session, reached through a night that killed a player
C7_Witness ==
    \E g \in DOMAIN games :
        /\ games[g].status = "in_progress"
        /\ games[g].phase = "day"
        /\ games[g].round = 2
        /\ pc[g] = "day_wait"
        /\ Cardinality(AliveIds(games[g])) = 7

\* C8: a finished session stays finished with the winner it got; the reward step
\* gives every roster player one win or loss, one XP award and one coin award and
\* nobody else anything; no other step touches the ledger; and once the rewards
\* are out, _end_game called again changes neither the session nor the ledger.
C8_RewardedOnce ==
    [][\A g \in DOMAIN games :
          /\ games[g].status = "finished"
             => /\ g \in DOMAIN games'
                /\ games'[g].status = "finished"
                /\ games'[g].winner = games[g].winner
                /\ pc[g] \in {"rewarding", "done"}
                /\ pc[g] = "done" => (pc'[g] = "done" /\ games' = games /\ ledger' = ledger)
          /\ IF Moves(g, "rewarding", "done")
             THEN \A u \in Users :
                    IF u \in Roster(games[g])
                    THEN /\ ledger'[u].wins + ledger'[u].losses
                                = ledger[u].wins + ledger[u].losses + 1
                         /\ ledger'[u].xp_awards = ledger[u].xp_awards + 1
                         /\ ledger'[u].coin_awards = ledger[u].coin_awards + 1
                         /\ ledger[u].xp_awards = 0
                    ELSE ledger'[u] = ledger[u]
             ELSE ledger' = ledger]_vars

\* a finished 1v1 session whose two players got one award each, one a win and one
\* a loss
C8_Witness ==
    \E g \in DOMAIN games :
        /\ games[g].status = "finished"
        /\ pc[g] = "done"
        /\ \A u \in Roster(games[g]) :
                /\ ledger[u].wins + ledger[u].losses = 1
                /\ ledger[u].xp_awards = 1 /\ ledger[u].coin_awards = 1
        /\ \E u, v \in Roster(games[g]) : ledger[u].wins = 1 /\ ledger[v].losses = 1

\* the requester may start session g: it waits, the requester created it, and its
\* roster is within the mode's minimum and maximum
MayStart(g, user_id) ==
    IF g \in DOMAIN games
    THEN /\ games[g].status = "waiting"
         /\ games[g].creator_id = user_id
         /\ Len(games[g].players) >= GAME_SETTINGS[games[g].mode].min_players
         /\ Len(games[g].players) <= GAME_SETTINGS[games[g].mode].max_players
    ELSE FALSE

\* session g leaves the lobby in this step
Started(g) ==
    /\ g \in DOMAIN games /\ g \in DOMAIN games'
    /\ games[g].status = "waiting"
    /\ games'[g].status # "waiting"

\* C9: a start_game request starts a waiting session, into the night of round 1,
\* only for its creator with a roster within the mode's minimum and maximum; every
\* other start_game request fails and leaves the registry as it was.
C9_StartGuard ==
    [][\A g \in GameIds :
          (ret'.op = "start" /\ ret'.game = g)
          => /\ Started(g)
                => /\ MayStart(g, ret'.user_id)
                   /\ ret'.ok
                   /\ games'[g].status = "in_progress"
                   /\ games'[g].phase = "night"
                   /\ games'[g].round = 1
             /\ ~MayStart(g, ret'.user_id)
                => /\ ~ret'.ok
                   /\ games' = games
                   /\ pending_actions' = pending_actions
                   /\ pc' = pc]_vars

\* a full 5v5 lobby that refused to start for a player who did not create it
C9_Witness ==
    \E g \in DOMAIN games :
        /\ ret.op = "start" /\ ret.game = g /\ ~ret.ok
        /\ ret.user_id \in Roster(games[g])
        /\ ret.user_id # games[g].creator_id
        /\ games[g].mode = "5v5"
        /\ Len(games[g].players) = GAME_SETTINGS[games[g].mode].max_players
        /\ games[g].status = "waiting"

\* the number of roster players who hold role r
Dealt(game, r) == Cardinality({i \in DOMAIN game.players : game.players[i].role = r})

\* C10: in a started 5v5 or 1v1 session every player holds a role, and each role
\* is held by as many players as the mode's configured distribution says.
C10_DealMatchesConfig ==
    \A g \in DOMAIN games :
        games[g].status # "waiting"
        => /\ Len(games[g].players) = GAME_SETTINGS[games[g].mode].max_players
           /\ \A r \in Roles \cup {NoRole} :
                Dealt(games[g], r) = Get(GAME_SETTINGS[games[g].mode].roles, r, 0)

\* a started 5v5 session whose first three players are not the mafia
C10_Witness ==
    \E g \in DOMAIN games :
        /\ games[g].mode = "5v5"
        /\ games[g].status = "in_progress"
        /\ Dealt(games[g], "mafia") = 3
        /\ games[g].players[1].role = "villager"
        /\ games[g].players[2].role = "doctor"
        /\ games[g].players[10].role = "mafia"

\* C11: while a session waits no player has a role; once it has left the lobby
\* every roster player has one of the roles, and no step changes a player's role or
\* the roster.
C11_RolesDealtOnce ==
    [][\A g \in DOMAIN games' :
          /\ games'[g].status = "waiting"
             => \A i \in DOMAIN games'[g].players : games'[g].players[i].role = NoRole
          /\ games'[g].status # "waiting"
             => \A i \in DOMAIN games'[g].players : games'[g].players[i].role \in Roles
          /\ (g \in DOMAIN games /\ games[g].status # "waiting")
             => /\ DOMAIN games'[g].players = DOMAIN games[g].players
                /\ \A i \in DOMAIN games[g].players :
                      /\ games'[g].players[i].role = games[g].players[i].role
                      /\ games'[g].players[i].user_id = games[g].players[i].user_id]_vars

\* a 5v5 session in its second night, with a dead player, every player holding a
\* role
C11_Witness ==
    \E g \in DOMAIN games :
        /\ games[g].mode = "5v5"
        /\ games[g].status = "in_progress"
        /\ games[g].round = 2
        /\ pc[g] = "night_resolved"
        /\ AliveIds(games[g]) # Roster(games[g])
        /\ \A i \in DOMAIN games[g].players : games[g].players[i].role \in Roles

\* C12: no step brings a dead player back to life.
C12_DeadStaysDead ==
    [][\A g \in DOMAIN games \cap DOMAIN games' :
          \A i \in DOMAIN games[g].players :
              ~games[g].players[i].alive
              => /\ i \in DOMAIN games'[g].players
                 /\ games'[g].players[i].user_id = games[g].players[i].user_id
                 /\ ~games'[g].players[i].alive]_vars

\* a second night resolved with the victims of the first night and of the first
\* day still dead
C12_Witness ==
    \E g \in DOMAIN games :
        /\ games[g].round = 2
        /\ pc[g] = "night_resolved"
        /\ night_outcome[g].eliminated = NoUser
        /\ Cardinality(Roster(games[g]) \ AliveIds(games[g])) = 2

\* user_id is a living player of a session in progress in `phase`
Eligible(user_id, phase) ==
    \E g \in DOMAIN games :
        /\ games[g].status = "in_progress"
        /\ games[g].phase = phase
        /\ user_id \in AliveIds(games[g])

\* some session is in progress in `phase`
Running(phase) ==
    \E g \in DOMAIN games : games[g].status = "in_progress" /\ games[g].phase = phase

\* C13: a night action sent by a user who is a living player of no session in its
\* night, and a day vote sent by a user who is a living player of no session in its
\* day, change nothing: no step that changes a buffer, a session or anything else
\* is a step of handle_action or handle_vote for such a user.
C13_RejectedChangesNothing ==
    [][LET changed == vars' # vars
           strangers(phase) == {u \in Users : changed /\ ~Eligible(u, phase)}
       IN  /\ \A u \in strangers("night"), emoji \in Emojis, name \in TargetNames :
                  ~handle_action(u, emoji, name)
           /\ \A u \in strangers("day"), name \in TargetNames \cup {Skip} :
                  ~handle_vote(u, name)]_vars

\* the second night of a 5v5 session with a dead mafia member among the senders and
\* a kill in the buffer
C13_Witness ==
    \E g \in DOMAIN games :
        /\ games[g].mode = "5v5"
        /\ games[g].round = 2
        /\ pc[g] = "night_wait"
        /\ "kill" \in DOMAIN pending_actions[g]
        /\ \E i \in DOMAIN games[g].players :
              /\ games[g].players[i].user_id \in Actors
              /\ games[g].players[i].role = "mafia"
              /\ ~games[g].players[i].alive

\* the answers that tell the sender the submission was refused
Refusals == {"target not found or is dead", "cannot protect the same player twice in a row"}

\* C14: while a session is in its night (day), a night action (day vote) from a
\* user who is not a living player of such a session is answered with a refusal.
C14_RejectedIsAnswered ==
    \A u \in Users :
        /\ (Running("night") /\ ~Eligible(u, "night"))
           => \A emoji \in Emojis, name \in TargetNames :
                  action_reply(u, emoji, name) \in Refusals
        /\ (Running("day") /\ ~Eligible(u, "day"))
           => \A name \in TargetNames \cup {Skip} : vote_reply(u, name) \in Refusals

\* the protect target recorded in the previous night: the player whose protected
\* flag that night's resolution set (it stays set until the next resolution)
ProtectedLastNight(game) ==
    {game.players[i].user_id : i \in {j \in DOMAIN game.players : game.players[j].protected}}

\* C15: while a night runs, the protect target in the buffer is never the player
\* who was the recorded protect target of the previous night.
C15_NoRepeatProtect ==
    \A g \in DOMAIN games :
        (g \in DOMAIN pc /\ pc[g] = "night_wait" /\ games[g].status = "in_progress")
        => Get(Get(pending_actions, g, EmptyDict), "protect", NoUser)
               \notin ProtectedLastNight(games[g])

\* the role of user_id in the game
RoleOf(game, user_id) == game.players[PlayerIndex(game.players, user_id)].role

\* C16: when a night is resolved with an investigation of a roster player in the
\* buffer, the result is "innocent" for a godfather; for any other role it is
\* "mafia" if the role's team is mafia and "innocent" if it is not.
C16_InvestigationResult ==
    [][\A g \in DOMAIN games :
          LET t == Get(Get(pending_actions, g, EmptyDict), "investigate", NoUser)
              result == night_outcome'[g].investigation
          IN  (Moves(g, "night_wait", "night_resolved") /\ t \in Roster(games[g]))
              => /\ RoleOf(games[g], t) = "godfather" => result = "innocent"
                 /\ RoleOf(games[g], t) # "godfather"
                    => /\ result \in {"mafia", "innocent"}
                       /\ result = "mafia" <=> get_role_team(RoleOf(games[g], t)) = "mafia"]_vars

\* a resolved night in which the detective investigated a godfather and was told
\* "innocent"
C16_Witness ==
    \E g \in DOMAIN games :
        /\ pc[g] = "night_resolved"
        /\ night_outcome[g].investigation = "innocent"
        /\ Get(pending_actions[g], "investigate", NoUser) \in Roster(games[g])
        /\ RoleOf(games[g], Get(pending_actions[g], "investigate", NoUser)) = "godfather"

\* the buffer with its investigation entry replaced by target t (NoUser: removed)
WithInvestigate(actions, t) ==
    IF t = NoUser THEN Pop(actions, "investigate") ELSE Put(actions, "investigate", t)

\* C17: when a night is resolved, what is announced to the session's chat is what
\* the resolution recorded of the kill and the protection, and it would be the
\* same with any other investigation target or none in the buffer; the result is
\* sent to nobody but a living detective of the session.
C17_ResultStaysPrivate ==
    [][\A g \in DOMAIN games :
          Moves(g, "night_wait", "night_resolved")
          => LET players == games[g].players
                 actions == Get(pending_actions, g, EmptyDict)
                 said == night_announcement(players, actions)
             IN  /\ (said.kind = "elimination") <=> (night_outcome'[g].eliminated # NoUser)
                 /\ said.kind = "elimination"
                    => said.username = username_of(night_outcome'[g].eliminated)
                 /\ said.kind = "summary" => said.protected = night_outcome'[g].protected
                 /\ \A t \in Roster(games[g]) \cup {NoUser} :
                        night_announcement(players, WithInvestigate(actions, t)) = said
                 /\ \A m \in investigation_messages(players, actions) :
                        /\ m.result = night_outcome'[g].investigation
                        /\ \E i \in DOMAIN games'[g].players :
                              /\ games'[g].players[i].user_id = m.to
                              /\ games'[g].players[i].role = "detective"
                              /\ games'[g].players[i].alive]_vars

\* a resolved night in which a mafia member was investigated, the detective lives
\* and somebody else was killed
C17_Witness ==
    \E g \in DOMAIN games :
        /\ pc[g] = "night_resolved"
        /\ night_outcome[g].investigation = "mafia"
        /\ night_outcome[g].eliminated \notin {NoUser, 1}
        /\ games[g].players[1].role = "detective"
        /\ games[g].players[1].alive

\* C18: a night resolved with an empty buffer and a day resolved with no votes or
\* only skipped votes leave the living as they were and record that nobody was
\* eliminated; the step that follows such a resolution ends the game if the win
\* check says so and otherwise opens the next phase: the day of the same round after
\* a night, the night of the next round after a day.
C18_NothingHappens ==
    [][\A g \in DOMAIN games \cap DOMAIN games' :
          LET ended == check_game_end_condition(games[g].players)
          IN  /\ (Moves(g, "night_wait", "night_resolved")
                  /\ Get(pending_actions, g, EmptyDict) = EmptyDict)
                 => /\ AliveIds(games'[g]) = AliveIds(games[g])
                    /\ night_outcome'[g] = NoOutcome
              /\ (Moves(g, "day_wait", "day_resolved")
                  /\ \A v \in DOMAIN games[g].day_votes : games[g].day_votes[v] = Skip)
                 => /\ AliveIds(games'[g]) = AliveIds(games[g])
                    /\ day_outcome'[g] = NoTally
              /\ (pc[g] = "night_resolved" /\ night_outcome[g] = NoOutcome /\ pc'[g] # pc[g])
                 => /\ AliveIds(games'[g]) = AliveIds(games[g])
                    /\ IF ended[1]
                       THEN /\ games'[g].status = "finished"
                            /\ games'[g].winner = ended[2]
                       ELSE /\ games'[g].status = "in_progress"
                            /\ games'[g].phase = "day"
                            /\ games'[g].round = games[g].round
                            /\ pc'[g] = "day_wait"
              /\ (pc[g] = "day_resolved" /\ day_outcome[g] = NoTally /\ pc'[g] # pc[g])
                 => /\ AliveIds(games'[g]) = AliveIds(games[g])
                    /\ IF ended[1]
                       THEN /\ games'[g].status = "finished"
                            /\ games'[g].winner = ended[2]
                       ELSE /\ games'[g].status = "in_progress"
                            /\ games'[g].phase = "night"
                            /\ games'[g].round = games[g].round + 1
                            /\ pc'[g] = "night_wait"]_vars

\* the second night of a 5v5 session in which nobody was killed, protected or voted
\* out: the first night had no action and the first day no vote for a player
C18_Witness ==
    \E g \in DOMAIN games :
        /\ games[g].mode = "5v5"
        /\ games[g].status = "in_progress"
        /\ games[g].round = 2
        /\ pc[g] = "night_wait"
        /\ \A i \in DOMAIN games[g].players :
              /\ games[g].players[i].alive
              /\ ~games[g].players[i].protected
              /\ games[g].players[i].last_protected = NoUser

\* C19: while a day runs the vote buffer holds at most one entry per living player,
\* the tally of a target is the number of voters whose entry names it, and a vote
\* or skip sent by a living voter always becomes that voter's entry, whatever the
\* voter sent before, leaving the entries of the others alone.
C19_LastVoteCounts ==
    \A g \in DOMAIN games :
        (g \in DOMAIN pc /\ pc[g] = "day_wait" /\ games[g].status = "in_progress")
        => LET votes == games[g].day_votes
               living == AliveIds(games[g])
           IN  /\ DOMAIN votes \subseteq living
               /\ \A v \in DOMAIN votes : votes[v] \in living \cup {Skip}
               /\ DOMAIN vote_counts(votes) \subseteq living
               /\ \A t \in DOMAIN vote_counts(votes) :
                      vote_counts(votes)[t] =
                          Cardinality({u \in living : Get(votes, u, Skip) = t})
               /\ \A u \in living \cap (1..MaxBallot),
                     t \in (living \cap (1..MaxTarget)) \cup {Skip} :
                      ENABLED (/\ handle_vote(u, IF t = Skip THEN Skip ELSE username_of(t))
                               /\ games'[g].day_votes = Put(votes, u, t))

\* a day in which two players have an entry in the buffer, one of them a skip
C19_Witness ==
    \E g \in DOMAIN games :
        /\ pc[g] = "day_wait"
        /\ games[g].status = "in_progress"
        /\ \E u, v \in DOMAIN games[g].day_votes :
              /\ u # v
              /\ games[g].day_votes[u] = Skip
              /\ games[g].day_votes[v] \in AliveIds(games[g])

\* the living players of the game whose role sends the action kind
LivingActors(game, kind) ==
    {game.players[i].user_id :
        i \in {j \in DOMAIN game.players :
                 /\ game.players[j].alive
                 /\ \/ kind = "kill" /\ game.players[j].role \in {"mafia", "godfather"}
                    \/ kind = "protect" /\ game.players[j].role = "doctor"
                    \/ kind = "investigate" /\ game.players[j].role = "detective"}}

\* C20: while a night runs the buffer holds at most one target for each of kill,
\* protect and investigate; a kill sent by any living mafia member for a living
\* player replaces the kill target and nothing else, whoever set it before; and the
\* resolution of the night eliminates nobody but the kill target then in the buffer.
C20_LastActionCounts ==
    \A g \in DOMAIN games :
        (g \in DOMAIN pc /\ pc[g] = "night_wait" /\ games[g].status = "in_progress")
        => LET actions == Get(pending_actions, g, EmptyDict)
               living == AliveIds(games[g])
           IN  /\ DOMAIN actions \subseteq {"kill", "protect", "investigate"}
               /\ \A kind \in DOMAIN actions : actions[kind] \in Roster(games[g])
               /\ \A u \in LivingActors(games[g], "kill") \cap RoundSenders,
                     t \in living \cap (1..MaxTarget) :
                      ENABLED (/\ handle_action(u, "knife", username_of(t))
                               /\ pending_actions'[g] = Put(actions, "kill", t)
                               /\ games' = games)
               /\ ENABLED (/\ NightResolve(g)
                           /\ AliveIds(games[g]) \ AliveIds(games'[g])
                                  \subseteq {Get(actions, "kill", NoUser)}
                           /\ night_outcome'[g].eliminated
                                  \in {NoUser, Get(actions, "kill", NoUser)})

\* a night of a 5v5 session with three living mafia members among the senders and
\* a kill target and a protect target in the buffer
C20_Witness ==
    \E g \in DOMAIN games :
        /\ games[g].mode = "5v5"
        /\ pc[g] = "night_wait"
        /\ games[g].status = "in_progress"
        /\ Cardinality(LivingActors(games[g], "kill") \cap RoundSenders) = 3
        /\ DOMAIN Get(pending_actions, g, EmptyDict) = {"kill", "protect"}

\* C21: a vote enters the vote buffer only while the session is in its day, which
\* it enters only by the step of the night resolution that makes the win check and
\* finds no winner; an action enters the action buffer only while the session is in
\* its night, which it enters only at the start of the game and by the step of the
\* day resolution that makes the win check and finds no winner.
C21_PhasesInSequence ==
    [][\A g \in DOMAIN games \cap DOMAIN games' :
          LET votes == games[g].day_votes
              actions == Get(pending_actions, g, EmptyDict)
              ended == check_game_end_condition(games[g].players)[1]
          IN  /\ (games'[g].day_votes # votes /\ games'[g].day_votes # EmptyDict)
                 => /\ games[g].status = "in_progress" /\ games[g].phase = "day"
                    /\ pc[g] \in {"day_wait", "day_resolved"}
              /\ (Get(pending_actions', g, EmptyDict) # actions
                  /\ Get(pending_actions', g, EmptyDict) # EmptyDict)
                 => /\ games[g].status = "in_progress" /\ games[g].phase = "night"
                    /\ pc[g] \in {"night_wait", "night_resolved"}
              /\ (games[g].phase # "day" /\ games'[g].phase = "day")
                 => pc[g] = "night_resolved" /\ ~ended /\ pc'[g] = "day_wait"
              /\ (pc[g] # "night_wait" /\ pc'[g] = "night_wait")
                 => \/ pc[g] = "day_resolved" /\ ~ended /\ games[g].phase = "day"
                    \/ pc[g] = "lobby" /\ games[g].status = "waiting"]_vars

\* the first day of a session after a night that killed a player, with a vote in
\* the buffer
C21_Witness ==
    \E g \in DOMAIN games :
        /\ pc[g] = "day_wait"
        /\ games[g].round = 1
        /\ AliveIds(games[g]) # Roster(games[g])
        /\ games[g].day_votes # EmptyDict

\* user_id may cancel session g: it is waiting and user_id created it
MayCancel(g, user_id) ==
    IF g \in DOMAIN games
    THEN games[g].status = "waiting" /\ games[g].creator_id = user_id
    ELSE FALSE

\* C22: a cancel_game request of the creator of a waiting session succeeds and
\* takes the session and its action buffer out of the registry; every other
\* cancel_game request fails and leaves the registry and the buffers as they were;
\* and a session leaves the registry in no other way.
C22_CancelGuard ==
    [][\A g \in GameIds :
          /\ \A u \in LobbyUsers :
                cancel_game(g, u)
                => /\ MayCancel(g, u)
                      => /\ ret'.ok
                         /\ g \notin DOMAIN games'
                         /\ g \notin DOMAIN pending_actions'
                   /\ ~MayCancel(g, u)
                      => /\ ~ret'.ok
                         /\ games' = games
                         /\ pending_actions' = pending_actions
                         /\ pc' = pc
          /\ (g \in DOMAIN games /\ g \notin DOMAIN games')
             => \E u \in LobbyUsers : cancel_game(g, u) /\ MayCancel(g, u)]_vars

\* a finished session whose creator was refused its cancellation
C22_Witness ==
    \E g \in DOMAIN games :
        /\ ret.op = "cancel" /\ ret.game = g /\ ~ret.ok
        /\ ret.user_id = games[g].creator_id
        /\ games[g].status = "finished"

\* C23: a finished session stays in the registry, and no step changes its status,
\* winner, roster, roles, alive flags, phase or round.
C23_FinishedIsFrozen ==
    [][\A g \in DOMAIN games :
          games[g].status = "finished"
          => /\ g \in DOMAIN games'
             /\ games'[g].status = "finished"
             /\ games'[g].winner = games[g].winner
             /\ games'[g].phase = games[g].phase
             /\ games'[g].round = games[g].round
             /\ DOMAIN games'[g].players = DOMAIN games[g].players
             /\ \A i \in DOMAIN games[g].players :
                   /\ games'[g].players[i].user_id = games[g].players[i].user_id
                   /\ games'[g].players[i].role = games[g].players[i].role
                   /\ games'[g].players[i].alive = games[g].players[i].alive]_vars

\* a finished session, its rewards paid, that refused a stranger who pressed Join
C23_Witness ==
    \E g \in DOMAIN games :
        /\ games[g].status = "finished"
        /\ pc[g] = "done"
        /\ ret.op = "join" /\ ret.game = g /\ ~ret.ok
        /\ ret.user_id \notin Roster(games[g])

\* this step changes session g: its presence in the registry, one of its fields,
\* or its action buffer
Changed(g) ==
    \/ (g \in DOMAIN games) # (g \in DOMAIN games')
    \/ (g \in DOMAIN pending_actions) # (g \in DOMAIN pending_actions')
    \/ IF g \in DOMAIN games /\ g \in DOMAIN games' THEN games'[g] # games[g] ELSE FALSE
    \/ Get(pending_actions', g, EmptyDict) # Get(pending_actions, g, EmptyDict)

\* C24: no step changes two sessions: whatever a step does to the roster, fields
\* or action buffer of one session, every other session and its buffer stay as
\* they were.
C24_SessionsIndependent ==
    [][\A g \in TwoIds, h \in TwoIds : (g # h /\ Changed(g)) => ~Changed(h)]_vars

\* a 1v1 session in its night with a kill in its buffer beside a 5v5 session in its
\* day with a vote in its buffer, with a player who is in both
C24_Witness ==
    /\ DOMAIN games = TwoIds
    /\ games["G1"].status = "in_progress" /\ games["G1"].phase = "night"
    /\ "kill" \in DOMAIN pending_actions["G1"]
    /\ games["G2"].status = "in_progress" /\ games["G2"].phase = "day"
    /\ games["G2"].day_votes # EmptyDict
    /\ AliveIds(games["G1"]) \cap AliveIds(games["G2"]) # {}

\* user_id may join session g: it is waiting, user_id is not in its roster and
\* the roster is not full
MayJoin(g, user_id) ==
    IF g \in DOMAIN games
    THEN /\ games[g].status = "waiting"
         /\ user_id \notin Roster(games[g])
         /\ Len(games[g].players) < GAME_SETTINGS[games[g].mode].max_players
    ELSE FALSE

\* C25: a join_game request that may join adds the user at the end of the roster;
\* every other join_game request fails and leaves the registry and the buffers as
\* they were; a roster never holds a user twice and never more players than the
\* mode allows; and the roster of a session that has started never changes.
C25_JoinGuard ==
    [][\A g \in GameIds :
          /\ \A u \in Users :
                join_game(g, u)
                => /\ MayJoin(g, u)
                      => /\ ret'.ok
                         /\ games'[g].players = Append(games[g].players, NewPlayer(u))
                   /\ ~MayJoin(g, u)
                      => /\ ~ret'.ok
                         /\ games' = games
                         /\ pending_actions' = pending_actions
          /\ g \in DOMAIN games'
             => /\ Cardinality(Roster(games'[g])) = Len(games'[g].players)
                /\ Len(games'[g].players) <= GAME_SETTINGS[games'[g].mode].max_players
          /\ (g \in DOMAIN games /\ g \in DOMAIN games' /\ games[g].status # "waiting")
             => /\ Len(games'[g].players) = Len(games[g].players)
                /\ \A i \in DOMAIN games[g].players :
                      games'[g].players[i].user_id = games[g].players[i].user_id]_vars

\* a full 5v5 lobby that refused one more player
C25_Witness ==
    \E g \in DOMAIN games :
        /\ ret.op = "join" /\ ret.game = g /\ ~ret.ok
        /\ ret.user_id \notin Roster(games[g])
        /\ games[g].mode = "5v5"
        /\ games[g].status = "waiting"
        /\ Len(games[g].players) = GAME_SETTINGS["5v5"].max_players

\* C26: the reward loop of _end_game pays every player of the roster once, with
\* xp = base XP of the mode + 100 if won + 50 if alive + 5 * round and
\* coins = 50 + 50 if won + 25 if alive, and counts a win for the player exactly
\* when the team of the player's role is the winner of the game.
C26_RewardFormula ==
    [][\A g \in GameIds :
          DistributeRewards(g)
          => \A i \in DOMAIN games[g].players :
                LET game == games[g]
                    player == game.players[i]
                    u == player.user_id
                    won == get_role_team(player.role) = game.winner
                IN  /\ ledger'[u].xp - ledger[u].xp
                          = GAME_SETTINGS[game.mode].base_xp_reward
                            + (IF won THEN 100 ELSE 0)
                            + (IF player.alive THEN 50 ELSE 0)
                            + 5 * game.round
                    /\ ledger'[u].coins - ledger[u].coins
                          = 50 + (IF won THEN 50 ELSE 0) + (IF player.alive THEN 25 ELSE 0)
                    /\ ledger'[u].wins - ledger[u].wins = (IF won THEN 1 ELSE 0)
                    /\ ledger'[u].losses - ledger[u].losses = (IF won THEN 0 ELSE 1)]_vars

\* a game the mafia won after its first round has paid a living mafia and a dead
\* player of the other team
C26_Witness ==
    \E g \in DOMAIN games :
        /\ g \in DOMAIN pc /\ pc[g] = "done"
        /\ games[g].winner = "mafia"
        /\ games[g].round > 1
        /\ \E i, j \in DOMAIN games[g].players :
              LET game == games[g]
                  p == game.players[i]
                  q == game.players[j]
              IN  /\ p.role = "mafia" /\ p.alive
                  /\ ledger[p.user_id].xp
                        = GAME_SETTINGS[game.mode].base_xp_reward + 150 + 5 * game.round
                  /\ ledger[p.user_id].coins = 125
                  /\ q.role # "mafia" /\ ~q.alive
                  /\ ledger[q.user_id].xp
                        = GAME_SETTINGS[game.mode].base_xp_reward + 5 * game.round
                  /\ ledger[q.user_id].coins = 50

\* the kill recorded for the night of session g
RecordedKill(g) == Get(Get(pending_actions, g, EmptyDict), "kill", NoUser)

\* the first night of a 5v5 game of ten players in which the recorded kill names
\* a player of the village who is not the recorded protection
VillagerKilledFirstNight(g) ==
    /\ games[g].mode = "5v5"
    /\ Len(games[g].players) = get_required_players("5v5")
    /\ games[g].status = "in_progress"
    /\ games[g].round = 1
    /\ RecordedKill(g) # Get(Get(pending_actions, g, EmptyDict), "protect", NoUser)
    /\ PlayerIndex(games[g].players, RecordedKill(g)) # 0
    /\ get_role_team(games[g].players[PlayerIndex(games[g].players, RecordedKill(g))].role)
          = "villagers"

\* C27: in a 5v5 game of ten players, when the kill recorded in the first night
\* names a player of the village who is not the recorded protection, the night's
\* resolution leaves that player dead and nine players alive, the session goes on
\* to the day of round 1, and the round becomes 2 only when that day's resolution
\* finds no winner.
C27_FirstNightKill ==
    [][\A g \in GameIds :
          (g \in DOMAIN pc /\ g \in DOMAIN pc' /\ pc'[g] # pc[g])
          => /\ (pc[g] = "night_wait" /\ VillagerKilledFirstNight(g))
                => /\ pc'[g] = "night_resolved"
                   /\ RecordedKill(g) \notin AliveIds(games'[g])
                   /\ Cardinality(AliveIds(games'[g])) = get_required_players("5v5") - 1
             /\ (pc[g] = "night_resolved" /\ VillagerKilledFirstNight(g)
                    /\ RecordedKill(g) \notin AliveIds(games[g]))
                => /\ pc'[g] = "day_wait"
                   /\ games'[g].status = "in_progress"
                   /\ games'[g].phase = "day"
                   /\ games'[g].round = 1
                   /\ RecordedKill(g) \notin AliveIds(games'[g])
                   /\ Cardinality(AliveIds(games'[g])) = get_required_players("5v5") - 1
             /\ (games[g].mode = "5v5" /\ games[g].round = 1 /\ games'[g].round # 1)
                => /\ games'[g].round = 2
                   /\ pc[g] = "day_resolved" /\ pc'[g] = "night_wait"
                   /\ games'[g].status = "in_progress"
                   /\ games'[g].winner = "none"
                   /\ ~check_game_end_condition(games'[g].players)[1]]_vars

\* the day of round 1 of a 5v5 game has begun with nine players alive, the
\* detective being the one the mafia killed in the night
C27_Witness ==
    \E g \in DOMAIN games :
        /\ games[g].mode = "5v5"
        /\ games[g].status = "in_progress"
        /\ games[g].phase = "day" /\ games[g].round = 1
        /\ pc[g] = "day_wait"
        /\ Cardinality(AliveIds(games[g])) = get_required_players("5v5") - 1
        /\ \E i \in DOMAIN games[g].players :
              /\ ~games[g].players[i].alive
              /\ get_role_team(games[g].players[i].role) = "villagers"

\* the moves of a session's coroutine: start_game_action enters the first night,
\* a night's resolution is followed by its win check and then the day or the end
\* of the game, a day's resolution by its win check and then the next night or
\* the end of the game
PhaseMoves ==
    {<<"lobby", "night_wait">>,
     <<"night_wait", "night_resolved">>,
     <<"night_resolved", "day_wait">>, <<"night_resolved", "rewarding">>,
     <<"day_wait", "day_resolved">>,
     <<"day_resolved", "night_wait">>, <<"day_resolved", "rewarding">>,
     <<"rewarding", "done">>}

\* C28: the status of a session only moves from waiting to in_progress and from
\* in_progress to finished; a session that starts enters a night; and the
\* resolutions of a session alternate, a night's resolution being followed by a
\* day's and a day's by a night's, the phase field naming the phase under way.
C28_StatusAndPhaseOrder ==
    [][\A g \in GameIds :
          (vars' # vars /\ g \in DOMAIN games /\ g \in DOMAIN games')
          => /\ games'[g].status # games[g].status
                => \/ /\ games[g].status = "waiting"
                      /\ games'[g].status = "in_progress"
                      /\ games'[g].phase = "night"
                      /\ pc'[g] = "night_wait"
                   \/ /\ games[g].status = "in_progress"
                      /\ games'[g].status = "finished"
             /\ pc'[g] # pc[g] => <<pc[g], pc'[g]>> \in PhaseMoves
             /\ pc'[g] \in {"night_wait", "night_resolved"}
                => games'[g].status = "in_progress" /\ games'[g].phase = "night"
             /\ pc'[g] \in {"day_wait", "day_resolved"}
                => games'[g].status = "in_progress" /\ games'[g].phase = "day"
             /\ games'[g].status = "in_progress"
                => pc'[g] \in {"night_wait", "night_resolved", "day_wait", "day_resolved"}]_vars

\* the second night of a session has been resolved: a night, a day and a night
\* were resolved in turn
C28_Witness ==
    \E g \in DOMAIN games :
        /\ games[g].status = "in_progress"
        /\ games[g].round = 2
        /\ games[g].phase = "night"
        /\ pc[g] = "night_resolved"

\* C29: the step that follows a night's or a day's resolution evaluates the win
\* condition on the roster the resolution left: when it is met that very step
\* makes the session finished with that winner, so that nothing is accepted in
\* between, and otherwise the session goes on without a winner; a session gets
\* its winner in no other step, in particular in none taken while a phase waits
\* for its timer; and a finished session records no action and no vote.
C29_WinCheckAfterResolution ==
    [][\A g \in GameIds :
          (vars' # vars /\ g \in DOMAIN games /\ g \in DOMAIN games')
          => /\ (pc[g] \in {"night_resolved", "day_resolved"} /\ pc'[g] # pc[g])
                => IF check_game_end_condition(games[g].players)[1]
                   THEN /\ games'[g].status = "finished"
                        /\ games'[g].winner = check_game_end_condition(games[g].players)[2]
                        /\ pc'[g] = "rewarding"
                   ELSE /\ games'[g].status = "in_progress"
                        /\ games'[g].winner = "none"
                        /\ pc'[g] = (IF pc[g] = "night_resolved" THEN "day_wait"
                                                                 ELSE "night_wait")
             /\ (games'[g].status # games[g].status /\ games'[g].status = "finished")
                => pc[g] \in {"night_resolved", "day_resolved"}
             /\ games'[g].winner # games[g].winner
                => pc[g] \in {"night_resolved", "day_resolved"}
             /\ games[g].status = "finished"
                => /\ games'[g].day_votes = games[g].day_votes
                   /\ Get(pending_actions', g, EmptyDict)
                        \in {Get(pending_actions, g, EmptyDict), EmptyDict}]_vars

\* the win check after the first night found the mafia to have won: the session
\* is finished in its night, before any day
C29_Witness ==
    \E g \in DOMAIN games :
        /\ games[g].status = "finished"
        /\ games[g].winner = "mafia"
        /\ games[g].phase = "night"
        /\ games[g].round = 1
        /\ pc[g] = "rewarding"

\* C30: a night or a day that waits for its timer is resolved in the end, and the
\* timer's resolution can be taken whatever was or was not submitted; the only
\* step that takes a session out of a waiting night or day is that resolution,
\* and a step that records an action or a vote leaves every session waiting
\* where it was.
C30_TimerResolves ==
    /\ \A g \in GameIds :
          (g \in DOMAIN pc /\ pc[g] = "night_wait")
              ~> (g \in DOMAIN pc /\ pc[g] = "night_resolved")
    /\ \A g \in GameIds :
          (g \in DOMAIN pc /\ pc[g] = "day_wait")
              ~> (g \in DOMAIN pc /\ pc[g] = "day_resolved")
    /\ [](\A g \in GameIds :
            /\ (g \in DOMAIN pc /\ pc[g] = "night_wait") => ENABLED NightResolve(g)
            /\ (g \in DOMAIN pc /\ pc[g] = "day_wait") => ENABLED DayResolve(g))
    /\ [][\A g \in GameIds :
            (vars' # vars /\ g \in DOMAIN pc /\ g \in DOMAIN pc')
            => /\ (pc[g] = "night_wait" /\ pc'[g] # pc[g]) => NightResolve(g)
               /\ (pc[g] = "day_wait" /\ pc'[g] # pc[g]) => DayResolve(g)
               /\ (\/ Get(pending_actions', g, EmptyDict)
                        \notin {Get(pending_actions, g, EmptyDict), EmptyDict}
                   \/ games'[g].day_votes \notin {games[g].day_votes, EmptyDict})
                  => /\ pc' = pc
                     /\ games'[g].phase = games[g].phase
                     /\ games'[g].round = games[g].round
                     /\ AliveIds(games'[g]) = AliveIds(games[g])]_vars

\* a night was resolved by its timer without one recorded action, and the day
\* after it without one vote
C30_Witness ==
    \E g \in DOMAIN games :
        /\ games[g].status = "in_progress"
        /\ pc[g] = "day_resolved"
        /\ games[g].day_votes = EmptyDict
        /\ Cardinality(AliveIds(games[g])) = Len(games[g].players)

\* the protection recorded for the night of session g
RecordedProtect(g) == Get(Get(pending_actions, g, EmptyDict), "protect", NoUser)

\* C31: a night's resolution clears every protected flag before it applies the
\* recorded protection: after it only the recorded protection is protected, and
\* a player still flagged from an earlier night who is the recorded kill and not
\* the recorded protection is eliminated.
C31_ProtectionNotKept ==
    [][\A g \in GameIds :
          (g \in DOMAIN pc /\ g \in DOMAIN pc' /\ pc[g] = "night_wait"
                /\ pc'[g] = "night_resolved")
          => /\ \A i \in DOMAIN games'[g].players :
                   games'[g].players[i].protected
                   => games'[g].players[i].user_id = RecordedProtect(g)
             /\ \A i \in DOMAIN games[g].players :
                   (/\ games[g].players[i].protected
                    /\ games[g].players[i].user_id = RecordedKill(g)
                    /\ games[g].players[i].user_id # RecordedProtect(g))
                   => /\ ~games'[g].players[i].alive
                      /\ night_outcome'[g].eliminated = RecordedKill(g)]_vars

\* the second night eliminated the player the doctor had protected in the first
C31_Witness ==
    \E g \in DOMAIN games :
        /\ games[g].round = 2
        /\ pc[g] = "night_resolved"
        /\ night_outcome[g].eliminated # NoUser
        /\ \E i \in DOMAIN games[g].players :
              /\ games[g].players[i].role = "doctor"
              /\ games[g].players[i].last_protected = night_outcome[g].eliminated
        /\ \A i \in DOMAIN games[g].players : ~games[g].players[i].protected

\* the usernames of the living players of a roster
LivingNames(players) == {players[i].username : i \in {j \in DOMAIN players : players[j].alive}}

\* the players the recorded votes of a game name
VoteTargets(game) == {game.day_votes[v] : v \in DOMAIN game.day_votes} \ {Skip}

\* the players the recorded actions of session g name
ActionTargets(g) ==
    {Get(pending_actions, g, EmptyDict)[k] : k \in DOMAIN Get(pending_actions, g, EmptyDict)}

\* C32: a night action or a vote whose target is not the username of a living
\* player of the session leaves the games and the buffers as they were; while a
\* night or a day waits for its timer every recorded target is alive; and the
\* player a resolution eliminates, the players it leaves protected and the
\* players whose votes it counts were alive when it began.
C32_DeadTargetIgnored ==
    /\ [](\A g \in DOMAIN games :
            /\ pc[g] = "night_wait" => ActionTargets(g) \subseteq AliveIds(games[g])
            /\ pc[g] = "day_wait" => VoteTargets(games[g]) \subseteq AliveIds(games[g]))
    /\ [][\A g \in GameIds :
            (vars' # vars /\ g \in DOMAIN games /\ g \in DOMAIN games')
            => /\ \A u \in RoundSenders, name \in TargetNames \ LivingNames(games[g].players) :
                     /\ \A emoji \in {"knife", "syringe"} :
                           handle_action(u, emoji, name)
                           => games' = games /\ pending_actions' = pending_actions
                     /\ handle_vote(u, name)
                        => games' = games /\ pending_actions' = pending_actions
               /\ (pc[g] = "night_wait" /\ pc'[g] = "night_resolved")
                  => /\ night_outcome'[g].eliminated \in AliveIds(games[g]) \cup {NoUser}
                     /\ \A i \in DOMAIN games'[g].players :
                           games'[g].players[i].protected => games[g].players[i].alive
                     /\ AliveIds(games[g]) \ AliveIds(games'[g])
                           \subseteq {night_outcome'[g].eliminated}
               /\ (pc[g] = "day_wait" /\ pc'[g] = "day_resolved")
                  => /\ day_outcome'[g].eliminated \in AliveIds(games[g]) \cup {NoUser}
                     /\ DOMAIN vote_counts(games[g].day_votes) \subseteq AliveIds(games[g])
                     /\ AliveIds(games[g]) \ AliveIds(games'[g])
                           \subseteq {day_outcome'[g].eliminated}]_vars

\* a night waits with a kill recorded while the name of a dead player can still
\* be sent as a target
C32_Witness ==
    \E g \in DOMAIN games :
        /\ pc[g] = "night_wait"
        /\ "kill" \in DOMAIN Get(pending_actions, g, EmptyDict)
        /\ TargetNames \ (LivingNames(games[g].players) \cup {UnknownName}) # {}
        /\ \E i \in DOMAIN games[g].players :
              ~games[g].players[i].alive /\ games[g].players[i].username \in TargetNames

\* C33: the vote buffer of a session is empty whenever its phase is night, when
\* a day begins and after the step that follows a day's resolution, so that the
\* votes a day's resolution counts were all cast in that day.
C33_VotesClearedEachDay ==
    /\ [](\A g \in DOMAIN games :
            (games[g].status = "waiting" \/ games[g].phase = "night")
            => games[g].day_votes = EmptyDict)
    /\ [][\A g \in GameIds :
            (g \in DOMAIN pc /\ g \in DOMAIN pc' /\ pc'[g] # pc[g])
            => /\ pc'[g] = "day_wait" => games'[g].day_votes = EmptyDict
               /\ pc[g] = "day_resolved" => games'[g].day_votes = EmptyDict]_vars

\* the second night of a session whose first day voted a player out
C33_Witness ==
    \E g \in DOMAIN games :
        /\ games[g].status = "in_progress"
        /\ games[g].phase = "night" /\ games[g].round = 2
        /\ pc[g] = "night_wait"
        /\ games[g].day_votes = EmptyDict
        /\ Cardinality(AliveIds(games[g])) = Len(games[g].players) - 2

\* C34: every action and every vote that is recorded is read by the resolution
\* of its phase: none is recorded once the resolution of the night has read the
\* action buffer, or the resolution of the day has counted the votes, only to be
\* cleared by the step that follows.
C34_AcceptedIsResolved ==
    [][\A g \in GameIds :
          (g \in DOMAIN pc /\ g \in DOMAIN pc' /\ pc'[g] = pc[g])
          => /\ pc[g] = "night_resolved"
                => Get(pending_actions', g, EmptyDict) = Get(pending_actions, g, EmptyDict)
             /\ pc[g] = "day_resolved"
                => games'[g].day_votes = games[g].day_votes]_vars

\* the roles that may fill the slot of an action kind
SlotRoles(kind) ==
    CASE kind = "kill" -> {"mafia", "godfather"}
      [] kind = "investigate" -> {"detective"}
      [] kind = "protect" -> {"doctor"}
      [] OTHER -> {}

\* the emoji that asks for an action kind
EmojiOf(kind) ==
    CASE kind = "kill" -> "knife"
      [] kind = "investigate" -> "magnifier"
      [] kind = "protect" -> "syringe"

\* the slots of the buffer of session g that a step fills or changes
SlotsChanged(g) ==
    {kind \in {"kill", "investigate", "protect"} :
        /\ kind \in DOMAIN Get(pending_actions', g, EmptyDict)
        /\ Get(Get(pending_actions', g, EmptyDict), kind, NoUser)
             # Get(Get(pending_actions, g, EmptyDict), kind, NoUser)}

\* C35: a step that fills or changes a slot of the action buffer changes that
\* slot alone and is the submission of a living player whose role may fill it,
\* sent with the emoji of that slot; and a slot is filled only in a session whose
\* roster holds a player of such a role.
C35_OnlyEligibleActor ==
    /\ [](\A g \in DOMAIN games :
            \A kind \in DOMAIN Get(pending_actions, g, EmptyDict) :
                \E i \in DOMAIN games[g].players :
                    games[g].players[i].role \in SlotRoles(kind))
    /\ [][\A g \in GameIds :
            (vars' # vars /\ g \in DOMAIN games /\ g \in DOMAIN games')
            => /\ Cardinality(SlotsChanged(g)) <= 1
               /\ \A kind \in SlotsChanged(g) :
                     \E i \in DOMAIN games[g].players :
                        /\ games[g].players[i].alive
                        /\ games[g].players[i].role \in SlotRoles(kind)
                        /\ \E name \in (1..NightRoster) \cup {UnknownName} :
                              handle_action(games[g].players[i].user_id, EmojiOf(kind), name)]_vars

\* a godfather filled the kill slot and the detective the investigate slot
C35_Witness ==
    \E g \in DOMAIN games :
        /\ pc[g] = "night_wait"
        /\ \E i \in DOMAIN games[g].players : games[g].players[i].role = "godfather"
        /\ {"kill", "investigate"} \subseteq DOMAIN Get(pending_actions, g, EmptyDict)
        /\ "protect" \notin DOMAIN Get(pending_actions, g, EmptyDict)

\* C36: the outcome of a night's resolution, and the summary sent to the chat,
\* say that an attack was blocked only when a kill was recorded and its target
\* is the recorded protection.
C36_ProtectedMeansBlocked ==
    [][\A g \in GameIds :
          (g \in DOMAIN pc /\ g \in DOMAIN pc' /\ pc[g] = "night_wait"
                /\ pc'[g] = "night_resolved")
          => /\ night_outcome'[g].protected
                => RecordedKill(g) # NoUser /\ RecordedKill(g) = RecordedProtect(g)
             /\ night_announcement(games[g].players,
                                   Get(pending_actions, g, EmptyDict)).protected
                => RecordedKill(g) # NoUser /\ RecordedKill(g) = RecordedProtect(g)]_vars

\* the team of the role of user_id in a game ("unknown" for a user not in it)
TeamOf(game, user_id) ==
    IF PlayerIndex(game.players, user_id) = 0 THEN "unknown"
    ELSE get_role_team(game.players[PlayerIndex(game.players, user_id)].role)

\* C37: the kill recorded for a night never names a player of the mafia team,
\* and the player a night's resolution eliminates is never of the mafia team.
C37_KillSparesMafia ==
    \A g \in DOMAIN games :
        /\ (pc[g] = "night_wait" /\ RecordedKill(g) # NoUser)
           => TeamOf(games[g], RecordedKill(g)) # "mafia"
        /\ (pc[g] = "night_resolved" /\ night_outcome[g].eliminated # NoUser)
           => TeamOf(games[g], night_outcome[g].eliminated) # "mafia"

\* C38: a 1v1 session in progress is in the night of round 1, never in a day;
\* the step that follows its first night's resolution finishes it, and the
\* winner is the mafia unless the night eliminated the mafia player, in which
\* case the villagers win.
C38_DuelEndsAtFirstNight ==
    /\ [](\A g \in DOMAIN games :
            games[g].mode = "1v1"
            => /\ pc[g] \notin {"day_wait", "day_resolved"}
               /\ games[g].round <= 1
               /\ games[g].status # "waiting"
                  => games[g].phase = "night" /\ games[g].round = 1)
    /\ [][\A g \in GameIds :
            (g \in DOMAIN pc /\ g \in DOMAIN pc' /\ games[g].mode = "1v1"
                /\ pc[g] = "night_resolved" /\ pc'[g] # pc[g])
            => /\ games'[g].status = "finished"
               /\ games'[g].round = 1
               /\ games'[g].winner =
                     (IF night_outcome[g].eliminated # NoUser
                         /\ TeamOf(games[g], night_outcome[g].eliminated) = "mafia"
                      THEN "villagers" ELSE "mafia")]_vars

\* a 1v1 session finished in its first night without any kill
C38_Witness ==
    \E g \in DOMAIN games :
        /\ games[g].mode = "1v1"
        /\ games[g].status = "finished"
        /\ games[g].winner = "mafia"
        /\ games[g].round = 1 /\ games[g].phase = "night"
        /\ Cardinality(AliveIds(games[g])) = Len(games[g].players)

\* C39: two sessions that are both waiting or in progress share no player, and
\* the scan of handle_action and handle_vote finds at most one session for a
\* sender.
C39_OneSessionPerUser ==
    /\ \A g \in DOMAIN games, h \in DOMAIN games :
          (g # h /\ games[g].status # "finished" /\ games[h].status # "finished")
          => Roster(games[g]) \cap Roster(games[h]) = {}
    /\ \A u \in Actors, phase \in {"night", "day"} :
          Cardinality(RoutedGamesAnyPhase(u, phase)) <= 1

\* C40: every session that was started is finished in the end.
C40_StartedFinishes ==
    \A g \in GameIds :
        <>(g \in DOMAIN games /\ games[g].status = "finished")

====
